---- MODULE Spec2Model ----
(***************************************************************************)
(* Verification model of the ProbLog clause database (clausedb.py), its    *)
(* clause index (the term trie) and the event-based grounding engine       *)
(* (engine_event.py).                                                      *)
(***************************************************************************)
EXTENDS Integers, Sequences, FiniteSets, TLC

(***************************************************************************)
(* Terms.  A term is a record with the same four fields for every kind:    *)
(*   k = "t"    compound/constant: functor f, arguments args               *)
(*   k = "v"    variable with index n (a raw int in a compiled clause,     *)
(*              wrapped as Var(n) when pushed on a trie argument stack)    *)
(*   k = "none" the unbound value None of a context                        *)
(***************************************************************************)
Tm(f, args) == [k |-> "t", f |-> f, n |-> 0, args |-> args]
Cst(f) == Tm(f, <<>>)
VarNames == <<"_V0", "_V1", "_V2", "_V3">>
Var(i) == [k |-> "v", f |-> VarNames[i + 1], n |-> i, args |-> <<>>]
None == [k |-> "none", f |-> "", n |-> 0, args |-> <<>>]
IsVar(t) == t.k = "v"
Arity(t) == Len(t.args)

\* str ordering of the functor names used in the model ('1' < '2' < 'a' ...)
FunctorOrder == <<"0", "1", "2", "3", "_V0", "_V1", "_V2", "_V3", "a", "b", "c", "f", "g", "p", "q">>
FRank(f) == CHOOSE i \in 1..Len(FunctorOrder) : FunctorOrder[i] = f
StrLess(f, g) == FRank(f) < FRank(g)

\* binds a computed value to a name that is then used several times
With(v, F(_)) == CHOOSE r \in {F(x) : x \in {v}} : TRUE

Reverse(s) == [i \in 1..Len(s) |-> s[Len(s) + 1 - i]]
Top(s) == s[Len(s)]
Pop(s) == SubSeq(s, 1, Len(s) - 1)
RECURSIVE PopN(_, _)
PopN(s, n) == IF n <= 0 THEN s ELSE PopN(Pop(s), n - 1)

(***************************************************************************)
(* TermTrieNode arena.  Node 1 is the root.  arg_stack = None is has_stack *)
(* = FALSE.  item is a set of <<itemID, insertionOrder>>.                  *)
(***************************************************************************)
NoLabel == "-"
TermTrieNode(functor, arity, has_stack, arg_stack, item) ==
    [functor |-> functor, arity |-> arity, children |-> <<>>, var_child |-> 0,
     has_stack |-> has_stack, arg_stack |-> arg_stack, item |-> item]
create_leaf(functor, arity, arg_stack, item) == TermTrieNode(functor, arity, TRUE, arg_stack, item)
create_intermediate(functor, arity) == TermTrieNode(functor, arity, FALSE, <<>>, {})
EmptyTrie == <<TermTrieNode(NoLabel, -1, FALSE, <<>>, {})>>

is_leaf(nd) == nd.has_stack /\ Len(nd.children) = 0 /\ nd.var_child = 0
is_empty(nd) == ~nd.has_stack /\ Len(nd.children) = 0 /\ nd.var_child = 0

add_args_to_stack(term, arg_stack) == arg_stack \o Reverse(term.args)

RECURSIVE BinSearch(_, _, _, _, _, _)
BinSearch(tr, child_list, functor, arity, lo, hi) ==
    IF lo < hi
    THEN LET mid == (lo + hi) \div 2
             c == tr[child_list[mid + 1]]
         IN IF c.arity < arity \/ (c.arity = arity /\ StrLess(c.functor, functor))
            THEN BinSearch(tr, child_list, functor, arity, mid + 1, hi)
            ELSE BinSearch(tr, child_list, functor, arity, lo, mid)
    ELSE lo
term_binary_search(tr, child_list, functor, arity) ==
    BinSearch(tr, child_list, functor, arity, 0, Len(child_list))

InsertAt(s, i, x) == SubSeq(s, 1, i) \o <<x>> \o SubSeq(s, i + 1, Len(s))

(***************************************************************************)
(* TermTrieNode._find                                                      *)
(***************************************************************************)
FindErr == <<-1, 0>>   \* IndexError / AssertionError inside _find

RECURSIVE LeafLoop(_, _, _, _)
LeafLoop(cs, as, cn, nx) ==
    IF Len(cs) > 0 /\ Len(as) > 0
       /\ (IsVar(cn) \/ IsVar(nx) \/ (Arity(cn) = Arity(nx) /\ cn.f = nx.f))
    THEN With(IF IsVar(cn) \/ IsVar(nx) THEN <<cs, as>>
              ELSE <<add_args_to_stack(cn, cs), add_args_to_stack(nx, as)>>,
              LAMBDA st : LeafLoop(Pop(st[1]), Pop(st[2]), Top(st[1]), Top(st[2])))
    ELSE <<cs, as>>

find_leaf(nd, arg_stack, arg_skip_count) ==
    IF arg_skip_count > Len(nd.arg_stack) THEN {FindErr}
    ELSE With(PopN(nd.arg_stack, arg_skip_count), LAMBDA c0 :
            IF Len(arg_stack) # Len(c0) THEN {}
            ELSE IF Len(arg_stack) = 0 THEN nd.item
            ELSE With(LeafLoop(Pop(c0), Pop(arg_stack), Top(c0), Top(arg_stack)), LAMBDA r :
                    IF Len(r[1]) = 0 /\ Len(r[2]) = 0 THEN nd.item
                    ELSE IF Len(r[1]) # 0 /\ Len(r[2]) # 0 THEN {}
                    ELSE {FindErr}))

RECURSIVE TFind(_, _, _, _)
TFind(tr, id, arg_stack, arg_skip_count) ==
    LET nd == tr[id]
        kids == {nd.children[i] : i \in 1..Len(nd.children)}
    IN IF is_leaf(nd) THEN find_leaf(nd, arg_stack, arg_skip_count)
       ELSE IF arg_skip_count > 0
       THEN LET sk == arg_skip_count - 1
            IN UNION {TFind(tr, c, arg_stack, sk + tr[c].arity) : c \in kids}
               \cup (IF nd.var_child # 0
                     THEN TFind(tr, nd.var_child, arg_stack, sk + tr[nd.var_child].arity)
                     ELSE {})
       ELSE IF Len(arg_stack) = 0 THEN {FindErr}
       ELSE LET first_arg == Top(arg_stack)
                rest == Pop(arg_stack)
                fromVar == IF nd.var_child # 0 THEN TFind(tr, nd.var_child, rest, 0) ELSE {}
            IN IF IsVar(first_arg)
               THEN fromVar \cup UNION {TFind(tr, c, rest, tr[c].arity) : c \in kids}
               ELSE With(term_binary_search(tr, nd.children, first_arg.f, Arity(first_arg)),
                         LAMBDA ix :
                            \* found_match
                            IF /\ ix # Len(nd.children)
                               /\ tr[nd.children[ix + 1]].arity = Arity(first_arg)
                               /\ tr[nd.children[ix + 1]].functor = first_arg.f
                            THEN fromVar \cup TFind(tr, nd.children[ix + 1],
                                                    add_args_to_stack(first_arg, rest), 0)
                            ELSE fromVar)

\* sorted(..., key = insertion order), then the item ids
RECURSIVE SortByOrder(_)
SortByOrder(S) ==
    IF S = {} THEN <<>>
    ELSE LET m == CHOOSE x \in S : \A y \in S : x[2] <= y[2]
         IN <<m[1]>> \o SortByOrder(S \ {m})

\* a variant that returns the candidates in the reverse order
TrieFindReversed(tr, term) ==
    With(TFind(tr, 1, <<term>>, 0), LAMBDA S :
        IF FindErr \in S THEN [err |-> "Error", res |-> <<>>]
        ELSE [err |-> "", res |-> Reverse(SortByOrder(S))])

\* TermTrieNode.find: [err, res]; err is set when _find raises
TrieFind(tr, term) ==
    With(TFind(tr, 1, <<term>>, 0), LAMBDA S :
        IF FindErr \in S THEN [err |-> "Error", res |-> <<>>]
        ELSE [err |-> "", res |-> SortByOrder(S)])

(***************************************************************************)
(* TermTrieNode._expand_to_intermediate / _add_term_args / add_term        *)
(***************************************************************************)
\* set.add of a TrieItemTuple: two tuples are equal when their itemID is
\* a variant in which the new item takes the place of the items of the leaf
ItemReplace(S, item) == {item}
ItemAdd(S, item) == IF \E x \in S : x[1] = item[1] THEN S ELSE S \cup {item}

\* while loop of _expand_to_intermediate (lines 1205-1220)
RECURSIVE ExpandLoop(_, _, _, _, _, _)
ExpandLoop(tr, diff_node, ns, cs, nn, cn) ==
    IF /\ Len(ns) > 0 /\ Len(cs) > 0
       /\ nn.k = cn.k
       /\ ((nn.f = cn.f /\ Arity(nn) = Arity(cn)) \/ (IsVar(nn) /\ IsVar(cn)))
    THEN LET newid == Len(tr) + 1
             tr1 == Append(tr, create_intermediate(cn.f, Arity(cn)))
             tr2 == IF IsVar(cn)
                    THEN [tr1 EXCEPT ![diff_node].var_child = newid]
                    ELSE [tr1 EXCEPT ![diff_node].children = Append(@, newid)]
             nn1 == Top(ns)
             cn1 == Top(cs)
         IN ExpandLoop(tr2, newid, add_args_to_stack(nn1, Pop(ns)),
                       add_args_to_stack(cn1, Pop(cs)), nn1, cn1)
    ELSE [tr |-> tr, diff_node |-> diff_node, ns |-> ns, cs |-> cs, nn |-> nn, cn |-> cn]

expand_to_intermediate(tr, self, arg_stack, item) ==
    IF Len(arg_stack) = 0
    THEN [tr EXCEPT ![self].item = ItemAdd(@, item)]
    ELSE With(ExpandLoop(tr, self,
                         add_args_to_stack(Top(arg_stack), Pop(arg_stack)),
                         add_args_to_stack(Top(tr[self].arg_stack), Pop(tr[self].arg_stack)),
                         Top(arg_stack), Top(tr[self].arg_stack)), LAMBDA L :
            \* equivalent_stacks, or both are variables
            IF \/ /\ Len(L.ns) = 0 /\ Len(L.cs) = 0
                  /\ L.nn.f = L.cn.f /\ Arity(L.nn) = Arity(L.cn)
               \/ (IsVar(L.nn) /\ IsVar(L.cn))
            THEN [L.tr EXCEPT ![self].arg_stack = tr[self].arg_stack,
                              ![self].item = ItemAdd(@, item),
                              ![self].children = <<>>,
                              ![self].var_child = 0]
            ELSE With(L.tr \o <<create_leaf(L.cn.f, Arity(L.cn), L.cs, tr[self].item),
                                create_leaf(L.nn.f, Arity(L.nn), L.ns, {item})>>, LAMBDA t1 :
                 With(IF IsVar(L.cn)
                      THEN [t1 EXCEPT ![L.diff_node].var_child = Len(L.tr) + 1,
                                      ![L.diff_node].children = Append(@, Len(L.tr) + 2)]
                      ELSE IF IsVar(L.nn)
                      THEN [t1 EXCEPT ![L.diff_node].var_child = Len(L.tr) + 2,
                                      ![L.diff_node].children = Append(@, Len(L.tr) + 1)]
                      ELSE [t1 EXCEPT ![L.diff_node].children =
                               InsertAt(<<Len(L.tr) + 1>>,
                                        term_binary_search(t1, <<Len(L.tr) + 1>>,
                                                           L.nn.f, Arity(L.nn)),
                                        Len(L.tr) + 2)], LAMBDA t2 :
                      [t2 EXCEPT ![self].has_stack = FALSE, ![self].arg_stack = <<>>,
                                 ![self].item = {}])))

RECURSIVE add_term_args(_, _, _, _)
add_term_args(tr, self, arg_stack, item) ==
    LET nd == tr[self]
    IN IF is_empty(nd)
       THEN [tr EXCEPT ![self].has_stack = TRUE, ![self].arg_stack = arg_stack,
                       ![self].item = {item}]
       ELSE IF is_leaf(nd) THEN expand_to_intermediate(tr, self, arg_stack, item)
       ELSE LET first_arg == Top(arg_stack)
                stack1 == add_args_to_stack(first_arg, Pop(arg_stack))
            IN IF IsVar(first_arg)
               THEN IF nd.var_child # 0
                    THEN add_term_args(tr, nd.var_child, stack1, item)
                    ELSE [Append(tr, create_leaf(first_arg.f, Arity(first_arg), stack1, {item}))
                            EXCEPT ![self].var_child = Len(tr) + 1]
               ELSE With(term_binary_search(tr, nd.children, first_arg.f, Arity(first_arg)),
                         LAMBDA ix :
                            \* found_match
                            IF /\ Len(nd.children) # 0 /\ ix # Len(nd.children)
                               /\ tr[nd.children[ix + 1]].arity = Arity(first_arg)
                               /\ tr[nd.children[ix + 1]].functor = first_arg.f
                            THEN add_term_args(tr, nd.children[ix + 1], stack1, item)
                            ELSE [Append(tr, create_leaf(first_arg.f, Arity(first_arg),
                                                         stack1, {item}))
                                    EXCEPT ![self].children = InsertAt(@, ix, Len(tr) + 1)])

\* item_nb is kept next to the arena by the clause index
add_term(tr, item_nb, term, item) == add_term_args(tr, 1, <<term>>, <<item, item_nb + 1>>)

(***************************************************************************)
(* ClauseIndexNew: a list of items, the trie, and the erased set.          *)
(***************************************************************************)
ClauseIndex == [list |-> <<>>, index |-> EmptyTrie, item_nb |-> 0, erased |-> {}]

\* ClauseIndexNew.append; term is Term(node.functor, *node.args) of the item
ci_append(ci, term, item) ==
    [ci EXCEPT !.list = Append(@, item),
               !.index = add_term(ci.index, ci.item_nb, term, item),
               !.item_nb = @ + 1]

ci_erase(ci, items) == [ci EXCEPT !.erased = @ \cup items]

\* ClauseIndexNew.find: the trie returns a list, from which a non-empty
\* erased set is subtracted with -=, which Python rejects for list and set
ci_find(ci, term) ==
    With(TrieFind(ci.index, term), LAMBDA result :
        IF result.err = "" /\ ci.erased # {} THEN [err |-> "TypeError", res |-> <<>>]
        ELSE result)

(***************************************************************************)
(* ClauseDB.  A chain of databases is a sequence dbs; dbs[d].parent is the *)
(* position of the parent database (0 = no parent).  Node indices are the  *)
(* Python 0-based indices.                                                 *)
(***************************************************************************)
NoIdx == -1000          \* Python None where a node index is expected
EmptyNode == [kind |-> "empty"]                       \* the placeholder ()
NewDB(offset, parent) ==
    [nodes |-> <<>>, heads |-> <<>>, redirect |-> <<>>, offset |-> offset, parent |-> parent]

Sig(term) == <<term.f, Arity(term)>>

\* dict.get on a sequence of <<key, value>> pairs that holds one pair per key
DictHas(dict, key) == \E i \in 1..Len(dict) : dict[i][1] = key
DictGet(dict, key, default) ==
    IF DictHas(dict, key)
    THEN dict[CHOOSE i \in 1..Len(dict) : dict[i][1] = key][2]
    ELSE default
DictSet(dict, key, value) ==
    IF DictHas(dict, key)
    THEN [i \in 1..Len(dict) |-> IF dict[i][1] = key THEN <<key, value>> ELSE dict[i]]
    ELSE Append(dict, <<key, value>>)

db_len(dbs, d) == Len(dbs[d].nodes) + dbs[d].offset

RECURSIVE get_node(_, _, _)
get_node(dbs, d, index0) ==
    LET index == DictGet(dbs[d].redirect, index0, index0)
    IN IF index < dbs[d].offset
       THEN IF dbs[d].parent = 0 THEN [kind |-> "IndexError"]
            ELSE get_node(dbs, dbs[d].parent, index)
       ELSE IF index - dbs[d].offset + 1 \in 1..Len(dbs[d].nodes)
            THEN dbs[d].nodes[index - dbs[d].offset + 1]
            ELSE [kind |-> "IndexError"]

\* _set_node; the caller checks index >= offset (IndexError otherwise)
set_node(dbs, d, index, node) ==
    [dbs EXCEPT ![d].nodes[index - dbs[d].offset + 1] = node]
set_node_raises(dbs, d, index) == index < dbs[d].offset

append_node(dbs, d, node) == [dbs EXCEPT ![d].nodes = Append(@, node)]

RECURSIVE get_head(_, _, _)
get_head(dbs, d, sig) ==
    LET node == DictGet(dbs[d].heads, sig, NoIdx)
    IN IF node = NoIdx /\ dbs[d].parent # 0 /\ db_len(dbs, dbs[d].parent) > 0
       THEN get_head(dbs, dbs[d].parent, sig)
       ELSE node

\* _set_head on a table of heads that is shared by the databases of the chain
set_head_shared(dbs, d, sig, index) ==
    [i \in 1..Len(dbs) |-> [dbs[i] EXCEPT !.heads = DictSet(@, sig, index)]]

set_head(dbs, d, sig, index) == [dbs EXCEPT ![d].heads = DictSet(@, sig, index)]

\* the builtin table shared by a database and the databases that extend it
Builtins == << << <<"true", 0>>, -1 >> >>
get_builtin_none(sig) == NoIdx
get_builtin(sig) == DictGet(Builtins, sig, NoIdx)

\* get_reserved_names / is_reserved_name: name is compared by identity with
\* the freshly built set of reserved names
ReservedNames == {"choice", "body"}
is_reserved_name(name) == FALSE

DefineNode(head, clauses) ==
    [kind |-> "define", functor |-> head.f, arity |-> Arity(head), children |-> clauses]

\* Term(node.functor, *node.args) of a fact, clause or choice node
NodeTerm(node) == Tm(node.functor, node.args)

\* for c in existing.children: clauses.append(c)
RECURSIVE CopyClauses(_, _, _, _, _)
CopyClauses(dbs, d, list, i, clauses) ==
    IF i > Len(list) THEN clauses
    ELSE CopyClauses(dbs, d, list, i + 1,
                     ci_append(clauses, NodeTerm(get_node(dbs, d, list[i])), list[i]))

\* _add_head: returns [dbs, ret, err]
add_head(dbs, d, head, create) ==
    With(<<get_builtin(Sig(head)), get_head(dbs, d, Sig(head)), db_len(dbs, d)>>,
         LAMBDA r :   \* r[1] the builtin, r[2] node, r[3] len(self)
    IF is_reserved_name(head.f) THEN [dbs |-> dbs, ret |-> NoIdx, err |-> "AccessError"]
    ELSE IF r[1] # NoIdx
    THEN IF create THEN [dbs |-> dbs, ret |-> NoIdx, err |-> "AccessError"]
         ELSE [dbs |-> dbs, ret |-> r[1], err |-> ""]
    ELSE IF r[2] = NoIdx
    THEN [dbs |-> set_head(append_node(dbs, d, IF create THEN DefineNode(head, ClauseIndex)
                                                ELSE EmptyNode),
                           d, Sig(head), r[3]),
          ret |-> r[3], err |-> ""]
    ELSE IF create /\ r[2] < dbs[d].offset
    THEN With(get_node(dbs, d, r[2]), LAMBDA existing :
            IF existing.kind = "extern"
            THEN [dbs |-> dbs, ret |-> NoIdx, err |-> "AttributeError"]
            ELSE
            [dbs |-> set_head(
                        [append_node(dbs, d,
                            DefineNode(head,
                                IF existing.kind # "empty"
                                THEN CopyClauses(dbs, d, existing.children.list, 1, ClauseIndex)
                                ELSE ClauseIndex))
                           EXCEPT ![d].redirect = DictSet(@, r[2], r[3])],
                        d, Sig(head), r[3]),
             ret |-> r[3], err |-> ""])
    ELSE [dbs |-> dbs, ret |-> r[2], err |-> ""])

\* the local position at which get_node(index) reads in database d, or 0
\* when it reads from a parent
LocalPos(dbs, d, index0) ==
    LET index == DictGet(dbs[d].redirect, index0, index0)
    IN IF index < dbs[d].offset THEN 0 ELSE index - dbs[d].offset + 1

\* a variant that stores a fresh define node whatever the index holds
add_define_node_fresh(dbs, d, head, childnode) ==
    With(add_head(dbs, d, head, TRUE), LAMBDA h :
    IF h.err # "" THEN h
    ELSE With(set_node(h.dbs, d, h.ret, DefineNode(head, ClauseIndex)), LAMBDA dbs1 :
            [dbs |-> [dbs1 EXCEPT ![d].nodes[LocalPos(dbs1, d, h.ret)].children =
                         ci_append(@, NodeTerm(get_node(dbs1, d, childnode)), childnode)],
             ret |-> childnode, err |-> ""]))

\* _add_define_node: returns [dbs, ret, err]; ret is childnode
add_define_node(dbs, d, head, childnode) ==
    With(add_head(dbs, d, head, TRUE), LAMBDA h :
    IF h.err # "" THEN h
    ELSE IF get_node(h.dbs, d, h.ret).kind = "extern"
    THEN [dbs |-> h.dbs, ret |-> NoIdx, err |-> "AttributeError"]
    ELSE With(IF get_node(h.dbs, d, h.ret).kind = "empty"
              THEN set_node(h.dbs, d, h.ret, DefineNode(head, ClauseIndex))
              ELSE h.dbs, LAMBDA dbs1 :
            [dbs |-> [dbs1 EXCEPT ![d].nodes[LocalPos(dbs1, d, h.ret)].children =
                         ci_append(@, NodeTerm(get_node(dbs1, d, childnode)), childnode)],
             ret |-> childnode, err |-> ""]))

(***************************************************************************)
(* Source structures and ClauseDB._compile.                                *)
(*   term               a body literal (a call)                            *)
(*   [k = "and"/"or", op1, op2], [k = "not", child]                        *)
(*   [k = "clause", head, p, body]   p = NoProb for a plain clause         *)
(*   [k = "ad", heads, body]         heads is a sequence of [t, p]         *)
(* Variables carry the index head.apply(variables) gives them (first       *)
(* occurrence order, head first).                                          *)
(***************************************************************************)
NoProb == "none"
SAnd(a, b) == [k |-> "and", op1 |-> a, op2 |-> b]
SOr(a, b) == [k |-> "or", op1 |-> a, op2 |-> b]
SNot(a) == [k |-> "not", child |-> a]
SClause(head, body) == [k |-> "clause", head |-> head, p |-> NoProb, body |-> body]
SAD(heads, body) == [k |-> "ad", heads |-> heads, body |-> body]
PHead(t, p) == [t |-> t, p |-> p]

Max(a, b) == IF a >= b THEN a ELSE b
RECURSIVE SeqMax(_)
SeqMax(s) == IF Len(s) = 0 THEN 0 ELSE Max(Head(s), SeqMax(Tail(s)))

\* len(variables) once the structure has been applied: 1 + largest index
RECURSIVE VarCount(_)
VarCount(st) ==
    IF st.k = "v" THEN st.n + 1
    ELSE IF st.k = "t" THEN SeqMax([i \in 1..Len(st.args) |-> VarCount(st.args[i])])
    ELSE IF st.k \in {"and", "or"} THEN Max(VarCount(st.op1), VarCount(st.op2))
    ELSE IF st.k = "not" THEN VarCount(st.child)
    ELSE IF st.k = "clause" THEN Max(VarCount(st.head), VarCount(st.body))
    ELSE IF st.k = "ad"
    THEN Max(SeqMax([i \in 1..Len(st.heads) |-> VarCount(st.heads[i].t)]), VarCount(st.body))
    ELSE 0

FactNode(term, p) ==
    [kind |-> "fact", functor |-> term.f, args |-> term.args, probability |-> p]
ClauseNode(head, p, body, varcount, group) ==
    [kind |-> "clause", functor |-> head.f, args |-> head.args, probability |-> p,
     child |-> body, varcount |-> varcount, group |-> group]
CallNode(functor, args, defnode) ==
    [kind |-> "call", functor |-> functor, args |-> args, defnode |-> defnode]
\* the functor of a choice node and of the call to it is the term
\* choice(group, index, head), kept in cterm
ChoiceNode(functor, args, p, group, choice) ==
    [kind |-> "choice", functor |-> functor.f, cterm |-> functor, args |-> args,
     probability |-> p, group |-> group, choice |-> choice]
ChoiceCall(functor, args, defnode) ==
    [kind |-> "call", functor |-> functor.f, cterm |-> functor, args |-> args,
     defnode |-> defnode]
ConjNode(a, b) == [kind |-> "conj", children |-> <<a, b>>]
DisjNode(a, b) == [kind |-> "disj", children |-> <<a, b>>]
NegNode(a) == [kind |-> "neg", child |-> a]

\* _append_node with its return value
AppendRet(dbs, d, node) == [dbs |-> append_node(dbs, d, node), ret |-> db_len(dbs, d), err |-> ""]

\* _add_clause_node
add_clause_node(dbs, d, head, p, body, varcount, group) ==
    With(AppendRet(dbs, d, ClauseNode(head, p, body, varcount, group)), LAMBDA a :
         add_define_node(a.dbs, d, head, a.ret))

\* _add_call_node
add_call_node(dbs, d, term) ==
    With(add_head(dbs, d, term, FALSE), LAMBDA h :
         IF h.err # "" THEN h
         ELSE AppendRet(h.dbs, d, CallNode(term.f, term.args, h.ret)))

NoGroup == -1
BodyVars(n) == [i \in 1..n |-> Var(i - 1)]

\* the loop over the heads with the two calls of a head clause exchanged
RECURSIVE CompileHeadsSwapped(_, _, _, _, _)
CompileHeadsSwapped(dbs, d, c, i, heads) ==
    IF i > Len(heads) THEN [dbs |-> dbs, ret |-> NoIdx, err |-> ""]
    ELSE With(Tm("choice", <<Cst(ToString(c.group)), Cst(ToString(i - 1)), heads[i].t>>),
              LAMBDA choice_functor :
         With(AppendRet(dbs, d, ChoiceNode(choice_functor, c.body_args, heads[i].p,
                                           c.group, i - 1)), LAMBDA n1 :
         With(AppendRet(n1.dbs, d, ChoiceCall(choice_functor, c.body_args, n1.ret)),
              LAMBDA n2 :
         With(AppendRet(n2.dbs, d, CallNode(c.body_head.f, c.body_head.args, c.clause_body)),
              LAMBDA n3 :
         With(AppendRet(n3.dbs, d, ConjNode(n2.ret, n3.ret)), LAMBDA n4 :
         With(add_clause_node(n4.dbs, d, heads[i].t, heads[i].p, n4.ret, c.body_count,
                              c.group), LAMBDA n5 :
              IF n5.err # "" THEN n5 ELSE CompileHeadsSwapped(n5.dbs, d, c, i + 1, heads)))))))

\* the loop over the heads of an annotated disjunction (lines 469-508)
RECURSIVE CompileHeads(_, _, _, _, _)
CompileHeads(dbs, d, c, i, heads) ==
    IF i > Len(heads) THEN [dbs |-> dbs, ret |-> NoIdx, err |-> ""]
    ELSE With(Tm("choice", <<Cst(ToString(c.group)), Cst(ToString(i - 1)), heads[i].t>>),
              LAMBDA choice_functor :
         With(AppendRet(dbs, d, ChoiceNode(choice_functor, c.body_args, heads[i].p,
                                           c.group, i - 1)), LAMBDA n1 :
         With(AppendRet(n1.dbs, d, ChoiceCall(choice_functor, c.body_args, n1.ret)),
              LAMBDA n2 :
         With(AppendRet(n2.dbs, d, CallNode(c.body_head.f, c.body_head.args, c.clause_body)),
              LAMBDA n3 :
         With(AppendRet(n3.dbs, d, ConjNode(n3.ret, n2.ret)), LAMBDA n4 :
         With(add_clause_node(n4.dbs, d, heads[i].t, heads[i].p, n4.ret, c.body_count,
                              c.group), LAMBDA n5 :
              IF n5.err # "" THEN n5 ELSE CompileHeads(n5.dbs, d, c, i + 1, heads)))))))

\* the annotated-disjunction branch of _compile once the body is compiled
CompileAD(body, d, struct, nvars, group) ==
    With(Tm("body_" \o ToString(db_len(body.dbs, d)),
            <<Cst(ToString(group)),
              IF Len(struct.heads) > 1 THEN Cst("multi") ELSE struct.heads[1].t>>
            \o BodyVars(nvars)), LAMBDA body_head :
    With(add_clause_node(body.dbs, d, body_head, NoProb, body.ret, nvars, NoGroup),
         LAMBDA bc :
         IF bc.err # "" THEN bc
         ELSE With(add_head(bc.dbs, d, body_head, TRUE), LAMBDA cb :
                   CompileHeads(cb.dbs, d,
                                [group |-> group, body_args |-> BodyVars(nvars),
                                 body_head |-> body_head, clause_body |-> cb.ret,
                                 body_count |-> nvars], 1, struct.heads))))

RECURSIVE compile(_, _, _, _)
compile(dbs, d, struct, nvars) ==
    IF struct.k \in {"and", "or"}
    THEN With(compile(dbs, d, struct.op1, nvars), LAMBDA r1 :
         IF r1.err # "" THEN r1
         ELSE With(compile(r1.dbs, d, struct.op2, nvars), LAMBDA r2 :
              IF r2.err # "" THEN r2
              ELSE AppendRet(r2.dbs, d, IF struct.k = "and" THEN ConjNode(r1.ret, r2.ret)
                                                           ELSE DisjNode(r1.ret, r2.ret))))
    ELSE IF struct.k = "not"
    THEN With(compile(dbs, d, struct.child, nvars), LAMBDA r :
              IF r.err # "" THEN r ELSE AppendRet(r.dbs, d, NegNode(r.ret)))
    ELSE IF struct.k \in {"ad", "clause"}
    THEN With(compile(dbs, d, struct.body, nvars), LAMBDA body :
         IF body.err # "" THEN body
         ELSE IF struct.k = "clause" /\ struct.p = NoProb
         THEN add_clause_node(body.dbs, d, struct.head, NoProb, body.ret, nvars, NoGroup)
         ELSE \* a clause with a probabilistic head is compiled as the annotated
              \* disjunction of its one head
              CompileAD(body, d,
                        IF struct.k = "ad" THEN struct
                        ELSE SAD(<<PHead(struct.head, struct.p)>>, struct.body),
                        nvars, Len(dbs[d].nodes)))
    ELSE add_call_node(dbs, d, struct)

\* find
find(dbs, d, head) == get_head(dbs, d, Sig(head))

\* add_clause
add_clause(dbs, d, clause) == compile(dbs, d, clause, VarCount(clause))

\* add_fact
add_fact(dbs, d, term, p) ==
    IF VarCount(term) = 0
    THEN With(AppendRet(dbs, d, FactNode(term, p)), LAMBDA a :
              add_define_node(a.dbs, d, term, a.ret))
    ELSE add_clause(dbs, d, [k |-> "clause", head |-> term, p |-> p, body |-> Cst("true")])

\* the node of a predicate that is implemented by a function of the host
ExternNode(head) == [kind |-> "extern", functor |-> head.f, arity |-> Arity(head)]

\* add_extern: returns [dbs, ret, err]; ClauseIndexNew.append reads the args
\* of the node it is given, which an extern node does not have
add_extern(dbs, d, head) ==
    With(get_head(dbs, d, Sig(head)), LAMBDA node_id :
    IF node_id = NoIdx
    THEN [dbs |-> set_head(append_node(dbs, d, ExternNode(head)), d, Sig(head),
                           db_len(dbs, d)),
          ret |-> NoIdx, err |-> ""]
    ELSE IF get_node(dbs, d, node_id).kind = "empty"
    THEN IF set_node_raises(dbs, d, node_id)
         THEN [dbs |-> dbs, ret |-> NoIdx, err |-> "IndexError"]
         ELSE [dbs |-> set_node(dbs, d, node_id, ExternNode(head)), ret |-> NoIdx, err |-> ""]
    ELSE With(AppendRet(dbs, d, ExternNode(head)), LAMBDA a :
         With(add_head(a.dbs, d, head, TRUE), LAMBDA h :
              IF h.err # "" THEN h
              ELSE [dbs |-> h.dbs, ret |-> NoIdx, err |-> "AttributeError"])))

\* extend(): a derived database whose offset is the parent's current length
extend(dbs, d) == Append(dbs, NewDB(db_len(dbs, d), d))

(***************************************************************************)
(* The reconstruction iterator.  A yielded item is a fact [k, t, p], a     *)
(* clause or an annotated disjunction, with source variables V_i           *)
(***************************************************************************)
\* _create_vars: the variable with index i becomes the source variable V_i
RECURSIVE create_vars(_)
create_vars(term) ==
    IF IsVar(term) THEN [term EXCEPT !.f = "V_" \o ToString(term.n), !.n = -1]
    ELSE IF term.k = "t"
    THEN [term EXCEPT !.args = [i \in 1..Len(term.args) |-> create_vars(term.args[i])]]
    ELSE term

ValueError == [k |-> "ValueError"]

\* _extract: the source structure of a body node
RECURSIVE extract(_, _, _)
extract(dbs, d, node_id) ==
    With(get_node(dbs, d, node_id), LAMBDA node :
    IF node.kind = "fact" THEN Tm(node.functor, node.args)
    ELSE IF node.kind = "call"
    THEN IF "cterm" \in DOMAIN node
         THEN create_vars(Tm(node.cterm.f, node.cterm.args \o node.args))
         ELSE create_vars(Tm(node.functor, node.args))
    ELSE IF node.kind \in {"conj", "disj"}
    THEN With(<<extract(dbs, d, node.children[1]), extract(dbs, d, node.children[2])>>,
              LAMBDA ab :
              IF ValueError \in {ab[1], ab[2]} THEN ValueError
              ELSE [k |-> IF node.kind = "conj" THEN "and" ELSE "or",
                    op1 |-> ab[1], op2 |-> ab[2]])
    ELSE IF node.kind = "neg"
    THEN With(extract(dbs, d, node.child), LAMBDA c :
              IF c = ValueError THEN ValueError ELSE [k |-> "not", child |-> c])
    ELSE ValueError)

\* enum_nodes: the <<index, node>> pairs of the parents, then the local ones
RECURSIVE enum_nodes(_, _)
enum_nodes(dbs, d) ==
    (IF dbs[d].parent # 0 THEN enum_nodes(dbs, dbs[d].parent) ELSE <<>>)
    \o [i \in 1..Len(dbs[d].nodes) |-> <<i - 1 + dbs[d].offset, dbs[d].nodes[i]>>]

\* the first loop of __iter__: what it yields for a fact or a clause without
\* group
IterYields(e) == e[2].kind = "fact" \/ (e[2].kind = "clause" /\ e[2].group = -1)
IterItem(dbs, d, node) ==
    IF node.kind = "fact"
    THEN [k |-> "fact", t |-> Tm(node.functor, node.args), p |-> node.probability]
    ELSE [k |-> "clause", head |-> create_vars(Tm(node.functor, node.args)),
          p |-> node.probability, body |-> extract(dbs, d, node.child)]

\* clause_groups: the clauses with a group, and the first clause of each
\* group in the order in which the dict received its keys
IterGrouped(en) == SelectSeq(en, LAMBDA e : e[2].kind = "clause" /\ e[2].group # -1)
IterGroupKeys(en) ==
    SelectSeq(IterGrouped(en), LAMBDA e :
        \A j \in 1..Len(en) :
            (en[j][2].kind = "clause" /\ en[j][2].group = e[2].group) => en[j][1] >= e[1])

\* the second loop of __iter__: the annotated disjunction of one group
IterGroup(dbs, d, group) ==
    With(get_node(dbs, d, get_node(dbs, d, group[1][2].child).children[1]),
         LAMBDA body_node :
         [k |-> "ad",
          heads |-> [j \in 1..Len(group) |->
                       With(get_node(dbs, d, group[j][1]), LAMBDA node :
                            [t |-> create_vars(Tm(node.functor, node.args)),
                             p |-> node.probability])],
          body |-> create_vars(Tm(body_node.functor, body_node.args))])

\* __iter__: the sequence of the items it yields
iter(dbs, d) ==
    With(enum_nodes(dbs, d), LAMBDA en :
    With(<<SelectSeq(en, IterYields), IterGroupKeys(en)>>, LAMBDA r :
         [i \in 1..Len(r[1]) |-> IterItem(dbs, d, r[1][i][2])]
         \o [g \in 1..Len(r[2]) |->
                IterGroup(dbs, d, SelectSeq(IterGrouped(en),
                                            LAMBDA e : e[2].group = r[2][g][2].group))]))

(***************************************************************************)
(* consult.  A file name is [lib, name]: library(name) or the plain name.  *)
(* Disk is the set of paths that exist, FileProgram the facts a file       *)
(* holds, LibraryPaths the library search path and SourceRoot the root of  *)
(* the program.  os.path.join is the concatenation of paths that end in    *)
(* their separator.                                                        *)
(***************************************************************************)
Disk == {"a.pl", "lib/m.pl"}
FileProgram(path) == IF path = "a.pl" THEN <<Tm("p", <<Cst("1")>>)>> ELSE <<Cst("q")>>
LibraryPaths == <<"lib/">>
SourceRoot == ""
NoFile == "None"
PlainFile(name) == [lib |-> FALSE, name |-> name]
LibraryFile(name) == [lib |-> TRUE, name |-> name]

\* the three probes of a joined path; NoFile when none of them exists
Probe(path) ==
    IF path \in Disk THEN path
    ELSE IF (path \o ".pl") \in Disk THEN path \o ".pl"
    ELSE IF (path \o ".py") \in Disk THEN path \o ".py"
    ELSE NoFile

\* the loop over library_paths; last is the value filename holds so far
RECURSIVE ResolveLibrary(_, _, _)
ResolveLibrary(name, i, last) ==
    IF i > Len(LibraryPaths) THEN last
    ELSE IF Probe(LibraryPaths[i] \o name) # NoFile THEN Probe(LibraryPaths[i] \o name)
    ELSE ResolveLibrary(name, i + 1, LibraryPaths[i] \o name)

\* resolve_filename: the path found, else the last path that was tried
resolve_filename(filename) ==
    IF filename.lib THEN ResolveLibrary(filename.name, 1, filename.name)
    ELSE IF Probe(SourceRoot \o filename.name) # NoFile
         THEN Probe(SourceRoot \o filename.name)
         ELSE SourceRoot \o filename.name

\* add_all: the statements of the program are added one by one
RECURSIVE add_all(_, _, _, _)
add_all(dbs, d, program, i) ==
    IF i > Len(program) THEN [dbs |-> dbs, ret |-> NoIdx, err |-> ""]
    ELSE With(add_fact(dbs, d, program[i], NoProb), LAMBDA r :
              IF r.err # "" THEN r ELSE add_all(r.dbs, d, program, i + 1))

\* what opening a path that does not exist may raise
MissingFileErrors == {"IOError", "ConsultError"}

\* consult: returns [dbs, files, ret, err]; failed is the error PrologFile
\* raises when the path does not exist
consult(dbs, d, files, filename, failed) ==
    With(resolve_filename(filename), LAMBDA path :
    IF path = NoFile
    THEN [dbs |-> dbs, files |-> files, ret |-> NoIdx, err |-> "ConsultError"]
    ELSE IF \A i \in 1..Len(files) : files[i] # path
    THEN IF path \notin Disk
         THEN [dbs |-> dbs, files |-> Append(files, path), ret |-> NoIdx, err |-> failed]
         ELSE With(add_all(dbs, d, FileProgram(path), 1), LAMBDA r :
                   [dbs |-> r.dbs, files |-> Append(files, path), ret |-> NoIdx,
                    err |-> r.err])
    ELSE [dbs |-> dbs, files |-> files, ret |-> NoIdx, err |-> ""])

(***************************************************************************)
(* Ground-formula sink (LogicFormula), as the engine uses it: reference 0  *)
(* is TRUE (no ground dependency), NoRef is None (FALSE).  Nodes live in a *)
(* sequence gp; reference r > 0 is gp[r].                                  *)
(***************************************************************************)
NoRef == -1
TrueRef == 0
GpNode(t, key, ch, ro) == [t |-> t, key |-> key, ch |-> ch, ro |-> ro]
NoKey == <<-1, <<>>, -1>>   \* atom keys are <<node or group, arguments, choice>>

\* add_atom(identifier, probability, group): a deterministic atom is TRUE,
\* an atom with a known identifier is reused
sink_add_atom(g, key, probability) ==
    IF probability = NoProb THEN [gp |-> g, ref |-> TrueRef]
    ELSE IF \E r \in 1..Len(g) : g[r].t = "atom" /\ g[r].key = key
    THEN [gp |-> g, ref |-> CHOOSE r \in 1..Len(g) : g[r].t = "atom" /\ g[r].key = key]
    ELSE [gp |-> Append(g, GpNode("atom", key, <<>>, TRUE)), ref |-> Len(g) + 1]

SeqHas(sq, x) == \E i \in 1..Len(sq) : sq[i] = x
RECURSIVE SeqDrop(_, _)
SeqDrop(sq, x) ==
    IF Len(sq) = 0 THEN <<>>
    ELSE IF Head(sq) = x THEN SeqDrop(Tail(sq), x)
    ELSE <<Head(sq)>> \o SeqDrop(Tail(sq), x)

\* add_and(refs): FALSE if a conjunct is FALSE, TRUE conjuncts are dropped
sink_add_and(g, refs) ==
    LET c == SeqDrop(refs, TrueRef)
    IN IF SeqHas(refs, NoRef) THEN [gp |-> g, ref |-> NoRef]
       ELSE IF Len(c) = 0 THEN [gp |-> g, ref |-> TrueRef]
       ELSE IF Len(c) = 1 THEN [gp |-> g, ref |-> c[1]]
       ELSE [gp |-> Append(g, GpNode("and", NoKey, c, TRUE)), ref |-> Len(g) + 1]

\* add_or(refs, readonly): a finalized or-node is simplified; an or-node
\* that may still be extended (readonly = False) is always created
sink_add_or(g, refs, readonly) ==
    LET c == SeqDrop(refs, NoRef)
    IN IF ~readonly THEN [gp |-> Append(g, GpNode("or", NoKey, refs, FALSE)), ref |-> Len(g) + 1]
       ELSE IF SeqHas(refs, TrueRef) THEN [gp |-> g, ref |-> TrueRef]
       ELSE IF Len(c) = 0 THEN [gp |-> g, ref |-> NoRef]
       ELSE IF Len(c) = 1 THEN [gp |-> g, ref |-> c[1]]
       ELSE [gp |-> Append(g, GpNode("or", NoKey, c, TRUE)), ref |-> Len(g) + 1]

\* add_not(ref): not TRUE is FALSE (None), not FALSE is TRUE
sink_add_not(g, ref) ==
    IF ref = TrueRef THEN [gp |-> g, ref |-> NoRef]
    ELSE IF ref = NoRef THEN [gp |-> g, ref |-> TrueRef]
    ELSE [gp |-> Append(g, GpNode("not", NoKey, <<ref>>, TRUE)), ref |-> Len(g) + 1]

\* add_disjunct(ref, extra): extends the or-node in place
sink_add_disjunct(g, ref, extra) ==
    IF ref \in 1..Len(g) THEN [g EXCEPT ![ref].ch = Append(@, extra)] ELSE g

(***************************************************************************)
(* Unification and instantiation of the flat terms (constants, variables)  *)
(* the engine programs of this model use.  A context is a sequence of      *)
(* values: None or a constant.                                             *)
(***************************************************************************)
instantiate(arg, context) == IF IsVar(arg) THEN context[arg.n + 1] ELSE arg
is_ground(v) == v.k = "t"
AllGround(vals) == \A i \in 1..Len(vals) : is_ground(vals[i])

\* unify(a, b) of a ground fact argument with a call argument
UnifyFact(fact_args, call_args) ==
    \A i \in 1..Len(fact_args) : call_args[i] = None \/ call_args[i] = fact_args[i]

\* the loop "for t, v in zip(pattern, values): unify(v, t, context)":
\* pattern holds variables and constants, values holds None and constants
RECURSIVE UnifyInto(_, _, _, _)
UnifyInto(pattern, values, i, context) ==
    IF i > Len(pattern) \/ i > Len(values) THEN [ok |-> TRUE, context |-> context]
    ELSE LET t == pattern[i]
             v == values[i]
         IN IF IsVar(t)
            THEN LET cur == context[t.n + 1]
                 IN IF cur = None
                    THEN UnifyInto(pattern, values, i + 1, [context EXCEPT ![t.n + 1] = v])
                    ELSE IF v = None \/ v = cur
                    THEN UnifyInto(pattern, values, i + 1, context)
                    ELSE [ok |-> FALSE, context |-> context]
            ELSE IF v = None \/ v = t
            THEN UnifyInto(pattern, values, i + 1, context)
            ELSE [ok |-> FALSE, context |-> context]

\* extract_vars(*head_args)[i]: the number of occurrences of variable i
HeadVarCount(head_args, i) == Cardinality({j \in 1..Len(head_args) : head_args[j] = Var(i)})

(***************************************************************************)
(* Engine state.                                                           *)
(*   edb, query   the database and the node index / context of the call    *)
(*   procs        the process nodes (ProcessNode subclasses), by creation  *)
(*   def_nodes    gp._def_nodes: <<key, process>> pairs                    *)
(*   gp           the ground program of the sink                           *)
(*   stack        the pending calls of the synchronous evaluation, the     *)
(*                innermost call last                                      *)
(*   status       "running", "done" or the error that aborted the run      *)
(*   streams      history: per listener handle, the events it has received *)
(*   execs        history: the keys ProcessDefine.execute has been run for *)
(*   idx, cdb     state of the clause-index and database specifications    *)
(***************************************************************************)
VARIABLES edb, query, procs, def_nodes, gp, stack, status, streams, execs,
          idx,   \* a clause index under test, with the result of its last operation
          cdb    \* a chain of databases under test

EVT_COMPLETE == 1
EVT_RESULT == 2
EVT_ALL == 3
WantsResult(evt) == evt \in {EVT_RESULT, EVT_ALL}
\* a variant that leaves out the listeners registered for completion alone
WantsCompleteAllOnly(evt) == evt = EVT_ALL
WantsComplete(evt) == evt \in {EVT_COMPLETE, EVT_ALL}

\* a listener handle is <<process, stream>>; stream 0 is a direct call that
\* is not an attached listener
H(pid, sid) == <<pid, sid>>
Lst(h, evt) == [h |-> h, evt |-> evt]

ProcessNode(kind) ==
    [kind |-> kind, listeners |-> <<>>, isComplete |-> FALSE,
     count |-> 0,               \* ProcessOr._count, ProcessLink.required_complete
     ground_nodes |-> <<>>,     \* ProcessNot
     context |-> <<>>,          \* ProcessNot, ProcessCallReturn
     node_id |-> NoIdx,         \* ProcessLink, ProcessDefine, ProcessBodyReturn
     define |-> 0,              \* ProcessLink; ProcessDefineCycle: the context it
                                \* was constructed with (the calling definition)
     parent |-> <<0, 0>>,       \* ProcessLink (handle), ProcessDefineCycle (<<owner, 0>>)
     first_node |-> NoRef,      \* ProcessAnd
     args |-> <<>>,             \* ProcessDefine.args, call_args, head_args
     parents |-> {},            \* ProcessDefine
     is_cyclic |-> FALSE, buffer |-> <<>>, results |-> <<>>, children |-> <<>>,
     execute_completed |-> FALSE]

\* history of one listener handle: the listener, the events it received
\* (log holds <<result, ground node>> in arrival order), and whether a result
\* arrived after a completion
\* fact and call: the fact node whose evaluation writes to the stream and the
\* arguments it was called with
NewStream == [pid |-> 0, nres |-> 0, ncomp |-> 0, late |-> FALSE, log |-> <<>>,
              fact |-> NoIdx, call |-> <<>>]

\* ProcessDefine.getAncestors / hasAncestor
RECURSIVE AncClosure(_, _, _)
AncClosure(ps, current, just_added) ==
    IF just_added = {} THEN current
    ELSE LET latest == UNION {ps[a].parents : a \in just_added} \ current
         IN AncClosure(ps, current \cup latest, latest \ {0})
getAncestors(ps, pid) == AncClosure(ps, {pid}, {pid})
\* a variant that knows a definition as its own ancestor only
hasAncestorSelf(ps, pid, anc) == anc = pid
hasAncestor(ps, pid, anc) == anc \in getAncestors(ps, pid)

(***************************************************************************)
(* Frames of the evaluation stack.                                         *)
(***************************************************************************)
FEval(node, ctx, cdef, h, fromcall) ==
    [op |-> "eval", node |-> node, ctx |-> ctx, cdef |-> cdef, h |-> h, fromcall |-> fromcall]
FRes(h, result, ground) == [op |-> "newResult", h |-> h, result |-> result, ground |-> ground]
FComp(h) == [op |-> "complete", h |-> h]
FNotifyR(pid, i, result, ground) ==
    [op |-> "notifyListeners", pid |-> pid, i |-> i, result |-> result, ground |-> ground]
FNotifyC(pid) == [op |-> "notifyComplete", pid |-> pid]
FNotifyCL(pid, i) == [op |-> "notifyCompleteLoop", pid |-> pid, i |-> i]
FFlush(pid, i, cycle, n0) == [op |-> "flush", pid |-> pid, i |-> i, cycle |-> cycle, n0 |-> n0]
FExecute(pid) == [op |-> "execute", pid |-> pid]
FExecLoop(pid, children, i, orpid) ==
    [op |-> "executeLoop", pid |-> pid, children |-> children, i |-> i, orpid |-> orpid]
FSweep(pid, i) == [op |-> "sweep", pid |-> pid, i |-> i]
FProp(pid, root) == [op |-> "propagateCyclic", pid |-> pid, root |-> root]
FPropLoop(root, todo) == [op |-> "propagateLoop", root |-> root, todo |-> todo]
FSetCyclic(pid) == [op |-> "setCyclic", pid |-> pid]
FCycleInit(pid, context, h) ==
    [op |-> "cycleInit", pid |-> pid, context |-> context, h |-> h]
FCycleChild(pid, cnode) == [op |-> "addCycleChild", pid |-> pid, cnode |-> cnode]
FReplay(pid, h, evt, snap, i) ==
    [op |-> "replay", pid |-> pid, h |-> h, evt |-> evt, snap |-> snap, i |-> i]

evars == <<edb, query, procs, def_nodes, gp, stack, status, streams, execs>>
xvars == <<idx, cdb>>
vars == <<evars, xvars>>

\* bound on the number of process nodes of one run
MaxProcs == 80
Running == status = "running" /\ Len(stack) > 0 /\ Len(procs) < MaxProcs
top == stack[Len(stack)]
rest == SubSeq(stack, 1, Len(stack) - 1)
getNode(id) == get_node(edb, query.d, id)
TopNode == getNode(top.node)
IsEval(kind) == Running /\ top.op = "eval" /\ TopNode.kind = kind
NewPid == Len(procs) + 1
NewSid(k) == Len(streams) + k
Raise(err) == status' = err /\ stack' = <<>>

(***************************************************************************)
(* RuntimeError in execute.  The message of a RuntimeError is the pair of  *)
(* its first 32 characters and the rest; query.raised is the message of    *)
(* the RuntimeError the host has raised during the evaluation.             *)
(***************************************************************************)
NoMessage == <<"", "">>
RecursionMessages == {<<"maximum recursion depth exceeded", "">>,
                      <<"maximum recursion depth exceeded", " in comparison">>}
OtherMessages == {<<"dictionary changed size during i", "teration">>}
RuntimeError(msg) == "RuntimeError: " \o msg[1] \o msg[2]

\* the handler of execute without the conversion
execute_reraise(msg) == RuntimeError(msg)

\* the handler of execute: str(err).startswith('maximum recursion depth
\* exceeded') gives CallStackError, any other RuntimeError is raised again
execute_handler(msg) ==
    IF msg[1] = "maximum recursion depth exceeded" THEN "CallStackError"
    ELSE RuntimeError(msg)

(***************************************************************************)
(* EventBasedEngine._eval and the _eval_* methods                          *)
(***************************************************************************)
\* the message of UnknownClause: the signature '%s/%s' of the call node
UnknownClause(call) ==
    "UnknownClause " \o call.functor \o "/" \o ToString(Len(call.args))

\* _eval on an empty node without the handler of _eval_call
EvalEmptyInternal ==
    /\ IsEval("empty")
    /\ Raise("UnknownClauseInternal")
    /\ UNCHANGED <<xvars, edb, query, procs, def_nodes, gp, streams, execs>>

\* _eval on an empty node: UnknownClauseInternal, which the _eval_call that
\* evaluates the node (fromcall, NoIdx for the node of the query) turns into
\* UnknownClause
EvalEmpty ==
    /\ IsEval("empty")
    /\ Raise(IF top.fromcall # NoIdx THEN UnknownClause(getNode(top.fromcall))
             ELSE "UnknownClauseInternal")
    /\ UNCHANGED <<xvars, edb, query, procs, def_nodes, gp, streams, execs>>

FromFact(h, node, ctx) ==
    IF h[2] > 0 THEN [streams EXCEPT ![h[2]].fact = node, ![h[2]].call = ctx]
    ELSE streams

\* _eval_fact without the result
EvalFactSilent ==
    /\ IsEval("fact")
    /\ gp' = gp
    /\ stack' = rest \o <<FComp(top.h)>>
    /\ streams' = FromFact(top.h, top.node, top.ctx)
    /\ UNCHANGED <<xvars, edb, query, procs, def_nodes, status, execs>>

EvalFact ==
    /\ IsEval("fact")
    /\ LET node == TopNode
           a == sink_add_atom(gp, <<top.node, <<>>, -1>>, node.probability)
       IN IF UnifyFact(node.args, top.ctx)
          THEN /\ gp' = a.gp
               /\ stack' = rest \o <<FComp(top.h), FRes(top.h, node.args, a.ref)>>
          ELSE /\ gp' = gp
               /\ stack' = rest \o <<FComp(top.h)>>
    /\ streams' = FromFact(top.h, top.node, top.ctx)
    /\ UNCHANGED <<xvars, edb, query, procs, def_nodes, status, execs>>

\* _eval_choice without the test of groundness
EvalChoiceOpen ==
    /\ IsEval("choice")
    /\ LET node == TopNode
           result == top.ctx
           a == sink_add_atom(gp, <<node.group, result, node.choice>>, node.probability)
       IN /\ gp' = a.gp
          /\ stack' = rest \o <<FComp(top.h), FRes(top.h, result, a.ref)>>
          /\ status' = status
    /\ UNCHANGED <<xvars, edb, query, procs, def_nodes, streams, execs>>

\* _eval_choice that leaves the choice index out of the identifier
EvalChoiceGroup ==
    /\ IsEval("choice")
    /\ LET node == TopNode
           result == top.ctx
           a == sink_add_atom(gp, <<node.group, result, 0>>, node.probability)
       IN IF ~AllGround(result)
          THEN /\ Raise("NonGroundProbabilisticClause")
               /\ gp' = gp
          ELSE /\ gp' = a.gp
               /\ stack' = rest \o <<FComp(top.h), FRes(top.h, result, a.ref)>>
               /\ status' = status
    /\ UNCHANGED <<xvars, edb, query, procs, def_nodes, streams, execs>>

EvalChoice ==
    /\ IsEval("choice")
    /\ LET node == TopNode
           result == top.ctx
           a == sink_add_atom(gp, <<node.group, result, node.choice>>, node.probability)
       IN IF ~AllGround(result)
          THEN /\ Raise("NonGroundProbabilisticClause")
               /\ gp' = gp
          ELSE /\ gp' = a.gp
               /\ stack' = rest \o <<FComp(top.h), FRes(top.h, result, a.ref)>>
               /\ status' = status
    /\ UNCHANGED <<xvars, edb, query, procs, def_nodes, streams, execs>>

EvalCall ==
    /\ IsEval("call")
    /\ LET node == TopNode
           call_args == [i \in 1..Len(node.args) |-> instantiate(node.args[i], top.ctx)]
           context_switch == [ProcessNode("callret") EXCEPT
                                !.listeners = <<Lst(top.h, EVT_ALL)>>,
                                !.args = node.args, !.context = top.ctx]
           h == H(NewPid, NewSid(1))
       IN /\ procs' = Append(procs, context_switch)
          /\ streams' = Append(streams, NewStream)
          /\ IF node.defnode < 0
             THEN \* the builtin true/0: one result without ground dependency
                  stack' = rest \o <<FComp(h), FRes(h, call_args, TrueRef)>>
             ELSE stack' = rest \o <<FEval(node.defnode, call_args, top.cdef, h, top.node)>>
    /\ UNCHANGED <<xvars, edb, query, def_nodes, gp, status, execs>>

\* _eval_clause that lets the UnifyError of the head reach its caller
EvalClauseRaise ==
    /\ IsEval("clause")
    /\ LET node == TopNode
           u == UnifyInto(node.args, top.ctx, 1, [i \in 1..node.varcount |-> None])
           context_switch == [ProcessNode("bodyret") EXCEPT
                                !.listeners = <<Lst(top.h, EVT_ALL)>>,
                                !.args = node.args, !.node_id = top.node]
       IN IF u.ok
          THEN /\ procs' = Append(procs, context_switch)
               /\ streams' = Append(streams, NewStream)
               /\ stack' = rest \o <<FEval(node.child, u.context, top.cdef,
                                           H(NewPid, NewSid(1)), NoIdx)>>
               /\ status' = status
          ELSE /\ Raise("UnifyError")
               /\ UNCHANGED <<procs, streams>>
    /\ UNCHANGED <<xvars, edb, query, def_nodes, gp, execs>>

EvalClause ==
    /\ IsEval("clause")
    /\ LET node == TopNode
           u == UnifyInto(node.args, top.ctx, 1, [i \in 1..node.varcount |-> None])
           context_switch == [ProcessNode("bodyret") EXCEPT
                                !.listeners = <<Lst(top.h, EVT_ALL)>>,
                                !.args = node.args, !.node_id = top.node]
       IN IF u.ok
          THEN /\ procs' = Append(procs, context_switch)
               /\ streams' = Append(streams, NewStream)
               /\ stack' = rest \o <<FEval(node.child, u.context, top.cdef,
                                           H(NewPid, NewSid(1)), NoIdx)>>
          ELSE /\ stack' = rest \o <<FComp(top.h)>>
               /\ UNCHANGED <<procs, streams>>
    /\ UNCHANGED <<xvars, edb, query, def_nodes, gp, status, execs>>

EvalConj ==
    /\ IsEval("conj")
    /\ LET node == TopNode
           process == [ProcessNode("link") EXCEPT
                         !.listeners = <<Lst(top.h, EVT_COMPLETE)>>,
                         !.parent = top.h, !.node_id = node.children[2],
                         !.define = top.cdef, !.count = 1]
       IN /\ procs' = Append(procs, process)
          /\ streams' = Append(streams, NewStream)
          /\ stack' = rest \o <<FEval(node.children[1], top.ctx, top.cdef,
                                      H(NewPid, NewSid(1)), NoIdx)>>
    /\ UNCHANGED <<xvars, edb, query, def_nodes, gp, status, execs>>

EvalDisj ==
    /\ IsEval("disj")
    /\ LET node == TopNode
           process == [ProcessNode("or") EXCEPT
                         !.listeners = <<Lst(top.h, EVT_ALL)>>,
                         !.count = Len(node.children)]
       IN /\ procs' = Append(procs, process)
          /\ streams' = streams \o <<NewStream, NewStream>>
          /\ stack' = rest \o <<FEval(node.children[2], top.ctx, top.cdef,
                                      H(NewPid, NewSid(2)), NoIdx),
                                FEval(node.children[1], top.ctx, top.cdef,
                                      H(NewPid, NewSid(1)), NoIdx)>>
    /\ UNCHANGED <<xvars, edb, query, def_nodes, gp, status, execs>>

EvalNeg ==
    /\ IsEval("neg")
    /\ LET node == TopNode
           process == [ProcessNode("not") EXCEPT
                         !.listeners = <<Lst(top.h, EVT_ALL)>>, !.context = top.ctx]
       IN /\ procs' = Append(procs, process)
          /\ streams' = Append(streams, NewStream)
          /\ stack' = rest \o <<FEval(node.child, top.ctx, top.cdef,
                                      H(NewPid, NewSid(1)), NoIdx)>>
    /\ UNCHANGED <<xvars, edb, query, def_nodes, gp, status, execs>>

\* _eval_define, key not yet in gp._def_nodes
DefKey == <<top.node, top.ctx>>
\* def_nodes.get(key): the cache entry, 0 for None
\* a variant without tabling: no key is ever found
def_nodes_miss(dn, key) == 0
def_nodes_get(dn, key) == DictGet(dn, key, 0)
EvalDefineNew ==
    /\ IsEval("define")
    /\ def_nodes_get(def_nodes, DefKey) = 0
    /\ LET pnode == [ProcessNode("define") EXCEPT
                       !.node_id = top.node, !.args = top.ctx,
                       !.parents = IF top.cdef # 0 THEN {top.cdef} ELSE {},
                       !.listeners = <<Lst(top.h, EVT_ALL)>>]
       IN /\ procs' = Append(procs, pnode)
          /\ def_nodes' = Append(def_nodes, <<DefKey, NewPid>>)
          /\ stack' = rest \o <<FExecute(NewPid)>>
    /\ UNCHANGED <<xvars, edb, query, gp, status, streams, execs>>

\* _eval_define, key known and the entry is an ancestor of the caller
EvalDefineCycle ==
    /\ IsEval("define")
    /\ LET pnode == def_nodes_get(def_nodes, DefKey)
       IN /\ pnode # 0
          /\ top.cdef # 0 /\ hasAncestor(procs, top.cdef, pnode)
          /\ stack' = rest \o <<FCycleInit(pnode, top.cdef, top.h), FProp(top.cdef, pnode)>>
    /\ UNCHANGED <<xvars, edb, query, procs, def_nodes, gp, status, streams, execs>>

\* _eval_define, key known, no cycle: addAncestor and addListener
EvalDefineReuse ==
    /\ IsEval("define")
    /\ LET pnode == def_nodes_get(def_nodes, DefKey)
       IN /\ pnode # 0
          /\ ~(top.cdef # 0 /\ hasAncestor(procs, top.cdef, pnode))
          /\ procs' = [procs EXCEPT ![pnode].parents = @ \cup {top.cdef},
                                    ![pnode].listeners = Append(@, Lst(top.h, EVT_ALL))]
          /\ stack' = rest \o <<FReplay(pnode, top.h, EVT_ALL, procs[pnode].results, 1)>>
    /\ UNCHANGED <<xvars, edb, query, def_nodes, gp, status, streams, execs>>

(***************************************************************************)
(* newResult of each process node class                                    *)
(***************************************************************************)
IsRes(kinds) == Running /\ top.op = "newResult" /\ procs[top.h[1]].kind \in kinds
RecvRes(h) ==
    IF h[2] > 0
    THEN [streams EXCEPT ![h[2]].pid = h[1],
                         ![h[2]].nres = @ + 1,
                         ![h[2]].late = @ \/ streams[h[2]].ncomp > 0,
                         ![h[2]].log = Append(@, <<top.result, top.ground>>)]
    ELSE streams
RecvComp(h) ==
    IF h[2] > 0 THEN [streams EXCEPT ![h[2]].pid = h[1], ![h[2]].ncomp = @ + 1]
    ELSE streams

\* ResultCollector.newResult (allow_vars = True)
ResCollector ==
    /\ IsRes({"collector"})
    /\ procs' = [procs EXCEPT ![top.h[1]].results = Append(@, <<top.result, top.ground>>)]
    /\ streams' = RecvRes(top.h)
    /\ stack' = rest
    /\ UNCHANGED <<xvars, edb, query, def_nodes, gp, status, execs>>

\* ProcessNode.newResult (ProcessOr, ProcessDefineCycle)
ResForward ==
    /\ IsRes({"or", "cycle"})
    /\ streams' = RecvRes(top.h)
    /\ stack' = rest \o <<FNotifyR(top.h[1], 1, top.result, top.ground)>>
    /\ UNCHANGED <<xvars, edb, query, procs, def_nodes, gp, status, execs>>

\* ProcessNot.newResult
\* a variant that forgets the ground nodes of the child
ResNotDrop ==
    /\ IsRes({"not"})
    /\ streams' = RecvRes(top.h)
    /\ stack' = rest
    /\ UNCHANGED <<xvars, edb, query, procs, def_nodes, gp, status, execs>>

\* a variant that keeps the ground nodes of the child in reverse order
ResNotPrepend ==
    /\ IsRes({"not"})
    /\ procs' = IF top.ground # NoRef
                THEN [procs EXCEPT ![top.h[1]].ground_nodes = <<top.ground>> \o @]
                ELSE procs
    /\ streams' = RecvRes(top.h)
    /\ stack' = rest
    /\ UNCHANGED <<xvars, edb, query, def_nodes, gp, status, execs>>

ResNot ==
    /\ IsRes({"not"})
    /\ procs' = IF top.ground # NoRef
                THEN [procs EXCEPT ![top.h[1]].ground_nodes = Append(@, top.ground)]
                ELSE procs
    /\ streams' = RecvRes(top.h)
    /\ stack' = rest
    /\ UNCHANGED <<xvars, edb, query, def_nodes, gp, status, execs>>

\* ProcessLink.newResult
ResLink ==
    /\ IsRes({"link"})
    /\ LET self == top.h[1]
           process == [ProcessNode("and") EXCEPT
                         !.first_node = top.ground,
                         !.listeners = <<Lst(procs[self].parent, EVT_RESULT),
                                         Lst(H(self, NewSid(1)), EVT_COMPLETE)>>]
       IN /\ procs' = Append([procs EXCEPT ![self].count = @ + 1], process)
          /\ streams' = RecvRes(top.h) \o <<NewStream, NewStream>>
          /\ stack' = rest \o <<FEval(procs[self].node_id, top.result, procs[self].define,
                                      H(NewPid, NewSid(2)), NoIdx)>>
    /\ UNCHANGED <<xvars, edb, query, def_nodes, gp, status, execs>>

\* a variant of ProcessAnd.newResult that forwards the reference of the second
\* conjunct alone
ResAndSecond ==
    /\ IsRes({"and"})
    /\ gp' = gp
    /\ stack' = rest \o <<FNotifyR(top.h[1], 1, top.result, top.ground)>>
    /\ streams' = RecvRes(top.h)
    /\ UNCHANGED <<xvars, edb, query, procs, def_nodes, status, execs>>

\* ProcessAnd.newResult
ResAnd ==
    /\ IsRes({"and"})
    /\ LET a == sink_add_and(gp, <<procs[top.h[1]].first_node, top.ground>>)
       IN /\ gp' = a.gp
          /\ stack' = rest \o <<FNotifyR(top.h[1], 1, top.result, a.ref)>>
    /\ streams' = RecvRes(top.h)
    /\ UNCHANGED <<xvars, edb, query, procs, def_nodes, status, execs>>

\* a variant that keeps the latest derivation of a binding only
newResultBufferedLast(buffer, res, ground_node) ==
    IF DictHas(buffer, res) THEN DictSet(buffer, res, <<ground_node>>)
    ELSE Append(buffer, <<res, <<ground_node>> >>)

\* ProcessDefine.newResultBuffered: self.__buffer[res].append(ground_node)
newResultBuffered(buffer, res, ground_node) ==
    IF DictHas(buffer, res)
    THEN DictSet(buffer, res, Append(DictGet(buffer, res, <<>>), ground_node))
    ELSE Append(buffer, <<res, <<ground_node>> >>)

\* ProcessDefine.newResult while the entry is not cyclic
ResDefineBuffered ==
    /\ IsRes({"define"})
    /\ ~procs[top.h[1]].is_cyclic
    /\ procs' = [procs EXCEPT ![top.h[1]].buffer = newResultBuffered(@, top.result, top.ground)]
    /\ streams' = RecvRes(top.h)
    /\ stack' = rest
    /\ UNCHANGED <<xvars, edb, query, def_nodes, gp, status, execs>>

\* a variant of newResultUnbuffered that creates the or-node finalized
ResDefineUnbufferedFinal ==
    /\ IsRes({"define"})
    /\ procs[top.h[1]].is_cyclic
    /\ LET self == top.h[1]
           res == top.result
           o == sink_add_or(gp, <<top.ground>>, TRUE)
       IN IF DictHas(procs[self].results, res)
          THEN /\ gp' = sink_add_disjunct(gp, DictGet(procs[self].results, res, NoRef), top.ground)
               /\ procs' = procs
               /\ stack' = rest
          ELSE /\ gp' = o.gp
               /\ procs' = [procs EXCEPT ![self].results = Append(@, <<res, o.ref>>)]
               /\ stack' = rest \o <<FNotifyR(self, 1, res, o.ref)>>
    /\ streams' = RecvRes(top.h)
    /\ UNCHANGED <<xvars, edb, query, def_nodes, status, execs>>

\* ProcessDefine.newResult once cyclic: newResultUnbuffered
ResDefineUnbuffered ==
    /\ IsRes({"define"})
    /\ procs[top.h[1]].is_cyclic
    /\ LET self == top.h[1]
           res == top.result
           o == sink_add_or(gp, <<top.ground>>, FALSE)
       IN IF DictHas(procs[self].results, res)
          THEN /\ gp' = sink_add_disjunct(gp, DictGet(procs[self].results, res, NoRef), top.ground)
               /\ procs' = procs
               /\ stack' = rest
          ELSE /\ gp' = o.gp
               /\ procs' = [procs EXCEPT ![self].results = Append(@, <<res, o.ref>>)]
               /\ stack' = rest \o <<FNotifyR(self, 1, res, o.ref)>>
    /\ streams' = RecvRes(top.h)
    /\ UNCHANGED <<xvars, edb, query, def_nodes, status, execs>>

\* ProcessBodyReturn.newResult
ResBodyReturn ==
    /\ IsRes({"bodyret"})
    /\ LET self == top.h[1]
           head_args == procs[self].args
           output == [i \in 1..Len(head_args) |-> instantiate(head_args[i], top.result)]
       IN IF \E i \in 1..Len(top.result) :
                ~is_ground(top.result[i]) /\ HeadVarCount(head_args, i - 1) > 1
          THEN Raise("VariableUnification")
          ELSE /\ stack' = rest \o <<FNotifyR(self, 1, output, top.ground)>>
               /\ status' = status
    /\ streams' = RecvRes(top.h)
    /\ UNCHANGED <<xvars, edb, query, procs, def_nodes, gp, execs>>

\* ProcessCallReturn.newResult
ResCallReturn ==
    /\ IsRes({"callret"})
    /\ LET self == top.h[1]
           u == UnifyInto(procs[self].args, top.result, 1, procs[self].context)
       IN stack' = IF u.ok THEN rest \o <<FNotifyR(self, 1, u.context, top.ground)>> ELSE rest
    /\ streams' = RecvRes(top.h)
    /\ UNCHANGED <<xvars, edb, query, procs, def_nodes, gp, status, execs>>

(***************************************************************************)
(* complete of each process node class                                     *)
(***************************************************************************)
IsComp(kinds) == Running /\ top.op = "complete" /\ procs[top.h[1]].kind \in kinds

\* ResultCollector.complete
CompCollector ==
    /\ IsComp({"collector"})
    /\ streams' = RecvComp(top.h)
    /\ stack' = rest
    /\ UNCHANGED <<xvars, edb, query, procs, def_nodes, gp, status, execs>>

\* ProcessNode.complete (ProcessAnd, ProcessDefineCycle, the two returns)
CompForward ==
    /\ IsComp({"and", "cycle", "bodyret", "callret"})
    /\ streams' = RecvComp(top.h)
    /\ stack' = rest \o <<FNotifyC(top.h[1])>>
    /\ UNCHANGED <<xvars, edb, query, procs, def_nodes, gp, status, execs>>

\* ProcessOr.complete that signals complete at every complete event
CompOrFirst ==
    /\ IsComp({"or"})
    /\ procs' = [procs EXCEPT ![top.h[1]].count = @ - 1]
    /\ streams' = RecvComp(top.h)
    /\ stack' = rest \o <<FNotifyC(top.h[1])>>
    /\ UNCHANGED <<xvars, edb, query, def_nodes, gp, status, execs>>

\* ProcessOr.complete
CompOr ==
    /\ IsComp({"or"})
    /\ procs' = [procs EXCEPT ![top.h[1]].count = @ - 1]
    /\ streams' = RecvComp(top.h)
    /\ stack' = IF procs[top.h[1]].count - 1 <= 0 THEN rest \o <<FNotifyC(top.h[1])>> ELSE rest
    /\ UNCHANGED <<xvars, edb, query, def_nodes, gp, status, execs>>

\* ProcessLink.complete
CompLink ==
    /\ IsComp({"link"})
    /\ procs' = [procs EXCEPT ![top.h[1]].count = @ - 1]
    /\ streams' = RecvComp(top.h)
    /\ stack' = IF procs[top.h[1]].count - 1 = 0 THEN rest \o <<FNotifyC(top.h[1])>> ELSE rest
    /\ UNCHANGED <<xvars, edb, query, def_nodes, gp, status, execs>>

\* ProcessNot.complete
CompNot ==
    /\ IsComp({"not"})
    /\ LET self == top.h[1]
           o == sink_add_or(gp, procs[self].ground_nodes, TRUE)
           n == sink_add_not(o.gp, o.ref)
       IN IF Len(procs[self].ground_nodes) > 0
          THEN /\ gp' = n.gp
               /\ stack' = IF n.ref # NoRef
                           THEN rest \o <<FNotifyC(self),
                                          FNotifyR(self, 1, procs[self].context, n.ref)>>
                           ELSE rest \o <<FNotifyC(self)>>
          ELSE /\ gp' = gp
               /\ stack' = rest \o <<FNotifyC(self),
                                     FNotifyR(self, 1, procs[self].context, TrueRef)>>
    /\ streams' = RecvComp(top.h)
    /\ UNCHANGED <<xvars, edb, query, procs, def_nodes, status, execs>>

\* ProcessDefine.complete: _flush_buffer() and notifyComplete()
CompDefine ==
    /\ IsComp({"define"})
    /\ streams' = RecvComp(top.h)
    /\ stack' = rest \o <<FNotifyC(top.h[1]),
                          FFlush(top.h[1], 1, FALSE, Len(procs[top.h[1]].buffer))>>
    /\ UNCHANGED <<xvars, edb, query, procs, def_nodes, gp, status, execs>>

(***************************************************************************)
(* notifyListeners / notifyComplete: loops over the live listener list     *)
(***************************************************************************)
IsOp(op) == Running /\ top.op = op

NotifyListeners ==
    /\ IsOp("notifyListeners")
    /\ LET ls == procs[top.pid].listeners
       IN stack' = IF top.i > Len(ls) THEN rest
                   ELSE IF WantsResult(ls[top.i].evt)
                   THEN rest \o <<FNotifyR(top.pid, top.i + 1, top.result, top.ground),
                                  FRes(ls[top.i].h, top.result, top.ground)>>
                   ELSE rest \o <<FNotifyR(top.pid, top.i + 1, top.result, top.ground)>>
    /\ UNCHANGED <<xvars, edb, query, procs, def_nodes, gp, status, streams, execs>>

NotifyComplete ==
    /\ IsOp("notifyComplete")
    /\ IF ~procs[top.pid].isComplete
       THEN /\ procs' = [procs EXCEPT ![top.pid].isComplete = TRUE]
            /\ stack' = rest \o <<FNotifyCL(top.pid, 1)>>
       ELSE /\ procs' = procs
            /\ stack' = rest
    /\ UNCHANGED <<xvars, edb, query, def_nodes, gp, status, streams, execs>>

NotifyCompleteLoop ==
    /\ IsOp("notifyCompleteLoop")
    /\ LET ls == procs[top.pid].listeners
       IN stack' = IF top.i > Len(ls) THEN rest
                   ELSE IF WantsComplete(ls[top.i].evt)
                   THEN rest \o <<FNotifyCL(top.pid, top.i + 1), FComp(ls[top.i].h)>>
                   ELSE rest \o <<FNotifyCL(top.pid, top.i + 1)>>
    /\ UNCHANGED <<xvars, edb, query, procs, def_nodes, gp, status, streams, execs>>

(***************************************************************************)
(* ProcessDefine                                                           *)
(***************************************************************************)
\* the call pattern handed to the clause index: unbound arguments are variables
CallTerm(functor, args) ==
    Tm(functor, [i \in 1..Len(args) |-> IF args[i] = None THEN Var(0) ELSE args[i]])

\* ProcessDefine.execute up to the loop over the children
Execute ==
    /\ IsOp("execute")
    /\ \E found \in {With(getNode(procs[top.pid].node_id),
                           LAMBDA node : ci_find(node.children,
                                             CallTerm(node.functor, procs[top.pid].args)))} :
       LET self == top.pid
           children == found.res
           process == [ProcessNode("or") EXCEPT
                         !.count = Len(children),
                         !.listeners = <<Lst(H(self, NewSid(1)), EVT_ALL)>>]
       IN IF found.err # ""
          THEN /\ Raise(found.err)
               /\ UNCHANGED <<procs, streams, execs>>
          ELSE /\ procs' = Append(procs, process)
               /\ streams' = Append(streams, NewStream)
               /\ execs' = Append(execs, <<procs[self].node_id, procs[self].args>>)
               /\ status' = status
               /\ stack' = IF Len(children) = 0
                           THEN rest \o <<FExecLoop(self, children, 1, NewPid), FNotifyC(NewPid)>>
                           ELSE rest \o <<FExecLoop(self, children, 1, NewPid)>>
    /\ UNCHANGED <<xvars, edb, query, def_nodes, gp>>

\* the loop "for child in children: self.engine._eval(...)" and what follows
\* it: execute_completed = True and the sweep over the cycle children
ExecuteLoop ==
    /\ IsOp("executeLoop")
    /\ IF top.i <= Len(top.children)
       THEN /\ stack' = rest \o <<FExecLoop(top.pid, top.children, top.i + 1, top.orpid),
                                  FEval(top.children[top.i], procs[top.pid].args, top.pid,
                                        H(top.orpid, NewSid(1)), NoIdx)>>
            /\ streams' = Append(streams, NewStream)
            /\ procs' = procs
       ELSE /\ procs' = [procs EXCEPT ![top.pid].execute_completed = TRUE]
            /\ stack' = rest \o <<FSweep(top.pid, 1)>>
            /\ streams' = streams
    /\ UNCHANGED <<xvars, edb, query, def_nodes, gp, status, execs>>

\* for c in self.children: c.complete()
Sweep ==
    /\ IsOp("sweep")
    /\ LET cs == procs[top.pid].children
       IN stack' = IF top.i > Len(cs) THEN rest
                   ELSE rest \o <<FSweep(top.pid, top.i + 1), FComp(H(cs[top.i], 0))>>
    /\ UNCHANGED <<xvars, edb, query, procs, def_nodes, gp, status, streams, execs>>

\* _flush_buffer: one iteration over self.__buffer.items(), or its end
FlushBuffer ==
    /\ IsOp("flush")
    /\ LET self == top.pid
           buffer == procs[self].buffer
       IN IF Len(buffer) # top.n0
          THEN \* dictionary changed size during iteration
               /\ Raise(execute_handler(<<"dictionary changed size during i", "teration">>))
               /\ UNCHANGED <<procs, gp>>
          ELSE IF top.i > Len(buffer)
          THEN /\ procs' = [procs EXCEPT ![self].buffer = <<>>]
               /\ stack' = rest
               /\ UNCHANGED <<gp, status>>
          ELSE LET result == buffer[top.i][1]
                   nodes == buffer[top.i][2]
                   o == IF Len(nodes) > 1 \/ top.cycle
                        THEN sink_add_or(gp, nodes, ~top.cycle)
                        ELSE [gp |-> gp, ref |-> nodes[1]]
               IN /\ gp' = o.gp
                  /\ procs' = [procs EXCEPT ![self].results = DictSet(@, result, o.ref)]
                  /\ stack' = rest \o <<FFlush(self, top.i + 1, top.cycle, top.n0),
                                        FNotifyR(self, 1, result, o.ref)>>
                  /\ status' = status
    /\ UNCHANGED <<xvars, edb, query, def_nodes, streams, execs>>

\* a variant of the setter that is handed the negation of the flag
SetCyclicToggle ==
    /\ IsOp("setCyclic")
    /\ procs' = [procs EXCEPT ![top.pid].is_cyclic = ~@]
    /\ stack' = rest \o <<FFlush(top.pid, 1, TRUE, Len(procs[top.pid].buffer))>>
    /\ UNCHANGED <<xvars, edb, query, def_nodes, gp, status, streams, execs>>

\* the cyclic setter: a change of the flag runs _cycle_detected
SetCyclic ==
    /\ IsOp("setCyclic")
    /\ IF ~procs[top.pid].is_cyclic
       THEN /\ procs' = [procs EXCEPT ![top.pid].is_cyclic = TRUE]
            /\ stack' = rest \o <<FFlush(top.pid, 1, TRUE, Len(procs[top.pid].buffer))>>
       ELSE /\ procs' = procs
            /\ stack' = rest
    /\ UNCHANGED <<xvars, edb, query, def_nodes, gp, status, streams, execs>>

\* a variant of propagateCyclic that does not go on to the parents
PropagateCyclicSelf ==
    /\ IsOp("propagateCyclic")
    /\ stack' = IF top.pid = top.root THEN rest ELSE rest \o <<FSetCyclic(top.pid)>>
    /\ UNCHANGED <<xvars, edb, query, procs, def_nodes, gp, status, streams, execs>>

\* propagateCyclic(root)
PropagateCyclic ==
    /\ IsOp("propagateCyclic")
    /\ IF top.pid = 0 THEN Raise("AttributeError")
       ELSE /\ stack' = IF top.pid = top.root THEN rest
                        ELSE rest \o <<FPropLoop(top.root, procs[top.pid].parents),
                                       FSetCyclic(top.pid)>>
            /\ status' = status
    /\ UNCHANGED <<xvars, edb, query, procs, def_nodes, gp, streams, execs>>

\* for p in self.parents: p.propagateCyclic(root), in the order of the set
PropagateLoop ==
    /\ IsOp("propagateLoop")
    /\ IF top.todo = {} THEN stack' = rest
       ELSE \E p \in top.todo :
               stack' = rest \o <<FPropLoop(top.root, top.todo \ {p}), FProp(p, top.root)>>
    /\ UNCHANGED <<xvars, edb, query, procs, def_nodes, gp, status, streams, execs>>

\* ProcessDefineCycle.__init__ after propagateCyclic
CycleInit ==
    /\ IsOp("cycleInit")
    /\ LET owner == top.pid
           cnode == [ProcessNode("cycle") EXCEPT
                       !.parent = H(owner, 0), !.define = top.context,
                       !.listeners = <<Lst(top.h, EVT_ALL)>>]
           hc == H(NewPid, NewSid(1))
       IN /\ procs' = Append([procs EXCEPT ![owner].listeners = Append(@, Lst(hc, EVT_ALL))],
                             cnode)
          /\ streams' = Append(streams, NewStream)
          /\ stack' = rest \o <<FCycleChild(owner, NewPid), FSetCyclic(owner),
                                FReplay(owner, hc, EVT_ALL, procs[owner].results, 1)>>
    /\ UNCHANGED <<xvars, edb, query, def_nodes, gp, status, execs>>

\* ProcessDefine.addCycleChild
AddCycleChild ==
    /\ IsOp("addCycleChild")
    /\ procs' = [procs EXCEPT ![top.pid].children = Append(@, top.cnode)]
    /\ stack' = IF procs[top.pid].execute_completed
                THEN rest \o <<FComp(H(top.cnode, 0))>>
                ELSE rest
    /\ UNCHANGED <<xvars, edb, query, def_nodes, gp, status, streams, execs>>

\* ProcessDefine.addListener after the append: past results, then completion
Replay ==
    /\ IsOp("replay")
    /\ stack' = IF top.i <= Len(top.snap)
                THEN IF WantsResult(top.evt)
                     THEN rest \o <<FReplay(top.pid, top.h, top.evt, top.snap, top.i + 1),
                                    FRes(top.h, top.snap[top.i][1], top.snap[top.i][2])>>
                     ELSE rest \o <<FReplay(top.pid, top.h, top.evt, top.snap, top.i + 1)>>
                ELSE IF procs[top.pid].isComplete /\ WantsComplete(top.evt)
                THEN rest \o <<FComp(top.h)>>
                ELSE rest
    /\ UNCHANGED <<xvars, edb, query, procs, def_nodes, gp, status, streams, execs>>

(***************************************************************************)
(* A RuntimeError of the host during execute                               *)
(***************************************************************************)
\* the host raises a RuntimeError at some step of the evaluation: the
\* recursion ceiling is hit, or another runtime fault occurs
HostRuntimeError ==
    /\ Running
    /\ \E msg \in RecursionMessages \cup OtherMessages :
          /\ query' = [query EXCEPT !.raised = msg]
          /\ Raise(execute_handler(msg))
    /\ UNCHANGED <<xvars, edb, procs, def_nodes, gp, streams, execs>>

\* execute returns the collected results
Finish ==
    /\ status = "running" /\ Len(stack) = 0
    /\ status' = "done"
    /\ UNCHANGED <<xvars, edb, query, procs, def_nodes, gp, stack, streams, execs>>

(***************************************************************************)
(* Programs and queries of the engine specification.                       *)
(***************************************************************************)
T0(f) == Tm(f, <<>>)
T1(f, a) == Tm(f, <<a>>)
T2(f, a, b) == Tm(f, <<a, b>>)
K1 == Cst("1")
K2 == Cst("2")
K3 == Cst("3")
X0 == Var(0)
X1 == Var(1)

\* a source item is [fact, p] or a clause / annotated disjunction
SFact(t, p) == [k |-> "fact", t |-> t, p |-> p]
RECURSIVE Load(_, _, _)
Load(dbs, items, i) ==
    IF i > Len(items) THEN dbs
    ELSE With(IF items[i].k = "fact" THEN add_fact(dbs, 1, items[i].t, items[i].p).dbs
              ELSE add_clause(dbs, 1, items[i]).dbs, LAMBDA nx :
              IF Len(nx[1].nodes) >= 0 THEN Load(nx, items, i + 1) ELSE nx)
Program(items) == Load(<<NewDB(0, 0)>>, items, 1)

\* facts, conjunction, disjunction, negation
ProgBasic == <<
    SFact(T1("q", K1), NoProb), SFact(T1("q", K2), "0.5"), SFact(T1("q", K3), "0.4"),
    SFact(T2("b", K2, K1), "0.5"), SFact(T2("b", K3, K1), "0.5"), SFact(T2("b", K3, K2), "0.6"),
    SClause(T2("c", X0, X1), SAnd(T1("q", X0), T2("b", X0, X1))),
    SClause(T1("a", X0), SOr(T1("q", X0), T2("b", X0, K1))),
    SClause(T1("f", X0), SNot(T1("q", X0))),
    SClause(T1("g", X0), SNot(T2("b", X0, X1))),
    SClause(T1("p", X0), SNot(SNot(T1("q", X0)))) >>

\* direct and mutual recursion
ProgCycle == <<
    SClause(T1("p", X0), T1("p", X0)),
    SClause(T0("a"), T0("b")),
    SClause(T0("b"), T0("a")),
    SClause(T0("b"), T0("c")),
    SFact(T0("c"), "0.5"),
    SClause(T1("q", X0), SAnd(T1("q", X0), T1("f", X0))),
    SFact(T1("q", K1), "0.5"),
    SFact(T1("f", K1), "0.5") >>

\* a cycle whose owner obtains a further binding from a second clause
ProgLate == <<
    SClause(T1("a", K1), T0("b")),
    SClause(T1("a", K2), T0("c")),
    SClause(T0("b"), SAnd(T1("a", X0), T1("q", X0))),
    SClause(T0("b"), T0("f")),
    SClause(T0("c"), T0("b")),
    SFact(T0("f"), "0.5"),
    SClause(T0("g"), SAnd(T1("a", X0), T1("q", X0))),
    SFact(T1("q", K1), "0.5"), SFact(T1("q", K2), "0.5") >>

\* an annotated disjunction with two heads over one body
ProgAD == <<
    SFact(T1("q", K1), "0.5"),
    SAD(<<PHead(T1("a", X0), "0.3"), PHead(T1("b", X0), "0.7")>>, T1("q", X0)),
    SClause(T0("c"), SAnd(T1("a", K1), T1("b", K1))),
    SClause(T0("f"), SOr(T1("a", K1), T1("a", X0))),
    SClause(T0("g"), T0("p")) >>

\* a cycle through three definitions
ProgChain == <<
    SClause(T0("a"), T0("b")),
    SClause(T0("b"), T0("c")),
    SClause(T0("c"), T0("a")),
    SClause(T0("c"), T0("f")),
    SFact(T0("f"), "0.5") >>

\* a definition that is called again from outside its own evaluation
ProgReuse == <<
    SFact(T0("p"), "0.5"),
    SClause(T0("q"), T0("p")),
    SClause(T0("a"), SAnd(T0("p"), T0("q"))),
    SClause(T0("b"), SAnd(T0("q"), T0("p"))) >>

\* a recursive definition whose facts precede its recursive clause: two
\* bindings are buffered when the cycle is detected, and the first of them
\* leads to a further derivation of the second
ProgFeedback == <<
    SFact(T1("a", K1), "0.5"),
    SFact(T1("a", K2), "0.5"),
    SClause(T1("a", X0), SAnd(T1("a", X1), T2("b", X1, X0))),
    SFact(T2("b", K1, K2), "0.5") >>

\* a definition (c) whose completion makes a cycle owner send a further
\* binding, which leads back into the body of c and from there to a call of
\* the owner
ProgRecycle == <<
    SClause(T1("a", K1), T1("b", X0)),
    SClause(T1("a", K2), T0("c")),
    SClause(T1("b", X0), SAnd(T1("a", X0), T1("q", X0))),
    SClause(T1("b", K1), T0("f")),
    SClause(T0("c"), SAnd(T1("b", X0), T1("g", X0))),
    SFact(T1("g", K1), "0.5"),
    SClause(T1("g", K2), T1("a", X0)),
    SFact(T0("f"), "0.5"),
    SFact(T1("q", K1), "0.5"), SFact(T1("q", K2), "0.5") >>

\* a definition (b) that waits for the queried definition and is then reused
\* by two further definitions (p, q), which buffer its result; a later result
\* of the queried definition leads to a new cycle below b, and the cyclic
\* flag is propagated to b's set of parents
ProgOrder == <<
    SClause(T1("a", K1), T0("b")),
    SClause(T1("a", K2), T0("p")),
    SClause(T1("a", K3), T0("q")),
    SFact(T1("a", Cst("0")), "0.5"),
    SFact(T0("b"), "0.5"),
    SClause(T0("b"), T0("c")),
    SClause(T0("c"), SAnd(T1("a", X0), T1("a", X1))),
    SClause(T0("p"), T0("b")),
    SClause(T0("q"), T0("b")) >>

\* a clause head and a call with a repeated variable: the head c(X, X) does
\* not unify with the call c(1, 2), and the call b(X, X) does not unify with
\* the result b(1, 2)
ProgFail == <<
    SFact(T2("b", K1, K1), "0.5"), SFact(T2("b", K1, K2), "0.5"), SFact(T2("b", K2, K2), "0.5"),
    SClause(T2("c", X0, X0), T1("q", X0)),
    SFact(T1("q", K1), "0.5"),
    SClause(T0("a"), T2("b", X0, X0)),
    SClause(T0("f"), T2("c", K1, K2)),
    SClause(T0("g"), SAnd(T2("b", X0, X0), T2("c", X0, K2))) >>

\* an annotated disjunction whose head variable is not bound by its body
ProgOpen == <<
    SFact(T1("q", K1), "0.5"),
    SAD(<<PHead(T1("a", X0), "0.3"), PHead(T1("b", X0), "0.7")>>, T1("q", K1)),
    SClause(T0("c"), SAnd(T1("a", K1), T1("a", X0))) >>

\* both alternatives of an annotated disjunction with the argument 1, and
\* the first alternative a second time through the call a(X)
ProgShare == <<
    SFact(T1("q", K1), "0.5"),
    SAD(<<PHead(T1("a", X0), "0.3"), PHead(T1("b", X0), "0.7")>>, T1("q", X0)),
    SClause(T0("c"), SAnd(T1("b", K1), SAnd(T1("a", K1), T1("a", X0)))) >>

ProgramItems == <<ProgBasic, ProgCycle, ProgLate, ProgAD, ProgChain, ProgReuse, ProgFeedback,
                  ProgRecycle, ProgOrder, ProgFail, ProgOpen, ProgShare>>
Programs == [i \in 1..Len(ProgramItems) |-> Program(ProgramItems[i])]

\* the queries: program, predicate, call arguments
Queries == {
    [prog |-> 1, t |-> T2("c", None, None)], [prog |-> 1, t |-> T1("a", None)],
    [prog |-> 1, t |-> T1("a", K2)], [prog |-> 1, t |-> T1("f", K1)],
    [prog |-> 1, t |-> T1("f", K2)], [prog |-> 1, t |-> T1("f", Cst("0"))],
    [prog |-> 1, t |-> T1("g", K3)], [prog |-> 1, t |-> T1("g", K1)],
    [prog |-> 1, t |-> T1("p", K2)], [prog |-> 1, t |-> T1("q", None)],
    [prog |-> 2, t |-> T1("p", K1)], [prog |-> 2, t |-> T0("a")],
    [prog |-> 2, t |-> T0("b")], [prog |-> 2, t |-> T1("q", None)],
    [prog |-> 3, t |-> T1("a", None)], [prog |-> 3, t |-> T0("g")],
    [prog |-> 3, t |-> T0("c")],
    [prog |-> 4, t |-> T0("c")], [prog |-> 4, t |-> T0("f")],
    [prog |-> 4, t |-> T1("b", K1)], [prog |-> 4, t |-> T0("g")],
    [prog |-> 4, t |-> T0("p")],
    [prog |-> 5, t |-> T0("a")],
    [prog |-> 6, t |-> T0("a")], [prog |-> 6, t |-> T0("b")],
    [prog |-> 7, t |-> T1("a", None)], [prog |-> 8, t |-> T1("a", None)],
    [prog |-> 9, t |-> T1("a", None)],
    [prog |-> 10, t |-> T0("a")], [prog |-> 10, t |-> T0("f")], [prog |-> 10, t |-> T0("g")],
    [prog |-> 10, t |-> T2("c", K1, K2)], [prog |-> 10, t |-> T2("c", None, K1)],
    [prog |-> 11, t |-> T0("c")], [prog |-> 11, t |-> T1("a", K1)],
    [prog |-> 12, t |-> T0("c")] }

\* engine.query: db.find(term), then execute(node_id, context = term.args)
\* the index and the database chain before any operation
IdxIdle == [ci |-> ClauseIndex, heads |-> <<>>, op |-> "none", term |-> None,
            err |-> "", res |-> <<>>]
\* op, head and ret record the last operation on the chain, the head of the
\* fact or clause it was given and the value it returned
\* source_files are the files consulted by the last database of the chain and
\* file the name the last consult was given
\* items are the source items compiled into the chain and iter the items the
\* last iteration yielded
CdbIdle == [dbs |-> <<NewDB(0, 0)>>, err |-> "", op |-> "none", head |-> None,
            ret |-> NoIdx, source_files |-> <<>>, file |-> PlainFile(""),
            items |-> <<>>, iter |-> <<>>]

Init ==
    /\ \E qy \in Queries :
          /\ edb = Programs[qy.prog]
          /\ query = [d |-> 1, node |-> get_head(edb, 1, Sig(qy.t)),
                      context |-> qy.t.args, raised |-> NoMessage]
    /\ procs = <<ProcessNode("collector")>>
    /\ def_nodes = <<>>
    /\ gp = <<>>
    /\ streams = <<NewStream>>
    /\ execs = <<>>
    /\ status = "running"
    /\ stack = <<FEval(query.node, query.context, 0, H(1, 1), NoIdx)>>
    /\ idx = IdxIdle
    /\ cdb = CdbIdle

Next ==
    \/ EvalEmpty \/ EvalFact \/ EvalChoice \/ EvalCall \/ EvalClause
    \/ EvalConj \/ EvalDisj \/ EvalNeg
    \/ EvalDefineNew \/ EvalDefineCycle \/ EvalDefineReuse
    \/ ResCollector \/ ResForward \/ ResNot \/ ResLink \/ ResAnd
    \/ ResDefineBuffered \/ ResDefineUnbuffered \/ ResBodyReturn \/ ResCallReturn
    \/ CompCollector \/ CompForward \/ CompOr \/ CompLink \/ CompNot \/ CompDefine
    \/ NotifyListeners \/ NotifyComplete \/ NotifyCompleteLoop
    \/ Execute \/ ExecuteLoop \/ Sweep \/ FlushBuffer \/ SetCyclic
    \/ PropagateCyclic \/ PropagateLoop \/ CycleInit \/ AddCycleChild \/ Replay
    \/ HostRuntimeError \/ Finish

Spec == Init /\ [][Next]_vars

\* the engine runs every step of an evaluation to its end
FairSpec == Spec /\ WF_vars(Next)

(***************************************************************************)
(* A second evaluation on the sink of the first                            *)
(***************************************************************************)
\* the queries that are evaluated on a sink that was used before
SinkQueries == {qy \in Queries : qy.prog \in {4, 6, 11}}

\* execute once more, with the sink (the ground program and the definition
\* cache stored on it) of the evaluation that has returned or was aborted
ExecuteOnSink ==
    /\ status \notin {"running", "idle"}
    /\ {p \in 1..Len(procs) : procs[p].kind = "collector"} = {1}
    /\ \E qy \in SinkQueries :
          /\ edb = Programs[qy.prog]
          /\ query' = [d |-> 1, node |-> get_head(edb, 1, Sig(qy.t)),
                       context |-> qy.t.args, raised |-> NoMessage]
          /\ stack' = <<FEval(query'.node, query'.context, 0, H(NewPid, NewSid(1)), NoIdx)>>
    /\ procs' = Append(procs, ProcessNode("collector"))
    /\ streams' = Append(streams, NewStream)
    /\ status' = "running"
    /\ UNCHANGED <<xvars, edb, def_nodes, gp, execs>>

SinkNext == Next \/ ExecuteOnSink
SinkSpec == Init /\ [][SinkNext]_vars

(***************************************************************************)
(* The clause index on its own: append, erase and find in any order        *)
(***************************************************************************)
\* no engine is running
EngineIdle ==
    /\ edb = <<>>
    /\ query = [d |-> 0, node |-> NoIdx, context |-> <<>>, raised |-> NoMessage]
    /\ procs = <<>> /\ def_nodes = <<>> /\ gp = <<>> /\ streams = <<>> /\ execs = <<>>
    /\ status = "idle" /\ stack = <<>>

\* bound on the number of candidates appended to the index
MaxAppend == 3
Ca == Cst("a")
Cb == Cst("b")
\* heads and call patterns of p/2
IdxTerms == {T2("p", Ca, Cb), T2("p", X0, Cb), T2("p", X0, X1),
             T2("p", T1("f", Ca), Cb), T2("p", T1("f", X0), Ca),
             T2("p", T1("f", Cb), X0)}

\* ClauseIndexNew.append; the item of the i-th append is i
IdxAppend ==
    /\ Len(idx.heads) < MaxAppend
    /\ \E term \in IdxTerms :
          idx' = [ci |-> ci_append(idx.ci, term, Len(idx.heads) + 1),
                  heads |-> Append(idx.heads, term),
                  op |-> "append", term |-> term, err |-> "", res |-> <<>>]
    /\ UNCHANGED <<evars, cdb>>

\* ClauseIndexNew.erase of one candidate
IdxErase ==
    /\ \E item \in 1..Len(idx.heads) :
          idx' = [idx EXCEPT !.ci = ci_erase(@, {item}), !.op = "erase",
                             !.term = None, !.err = "", !.res = <<>>]
    /\ UNCHANGED <<evars, cdb>>

\* ClauseIndexNew.find
IdxFind ==
    /\ \E term \in IdxTerms :
       \E found \in {ci_find(idx.ci, term)} :
          idx' = [idx EXCEPT !.op = "find", !.term = term,
                             !.err = found.err, !.res = found.res]
    /\ UNCHANGED <<evars, cdb>>

IdxInit == EngineIdle /\ idx = IdxIdle /\ cdb = CdbIdle
IdxNext == IdxAppend \/ IdxErase \/ IdxFind
IdxSpec == IdxInit /\ [][IdxNext]_vars

(***************************************************************************)
(* The database on its own: a chain of databases built by extend, to the   *)
(* last of which facts and clauses are added                               *)
(***************************************************************************)
\* bounds on the length of the chain and on the nodes of the chain
MaxDBs == 3
MaxNodes == 7
\* facts and clauses of user predicates, a fact whose head has a reserved
\* functor, a fact for the builtin true/0 and a clause that calls it
DbFacts == {T1("p", K1), T1("choice", K1), T0("true")}
DbClauses == {SClause(T0("q"), T1("p", K1)), SClause(T1("p", K3), T0("q")),
              SClause(T0("q"), T0("true"))}
Last == Len(cdb.dbs)

\* ClauseDB.extend
DbExtend ==
    /\ Len(cdb.dbs) < MaxDBs
    /\ cdb' = [CdbIdle EXCEPT !.dbs = extend(cdb.dbs, Last), !.op = "extend",
                               !.source_files = cdb.source_files]
    /\ UNCHANGED <<evars, idx>>

\* ClauseDB.add_fact
DbAddFact ==
    /\ db_len(cdb.dbs, Last) < MaxNodes
    /\ \E term \in DbFacts :
       \E r \in {add_fact(cdb.dbs, Last, term, NoProb)} :
          cdb' = [CdbIdle EXCEPT !.dbs = r.dbs, !.err = r.err, !.op = "add_fact",
                                 !.head = term, !.ret = r.ret,
                                 !.source_files = cdb.source_files]
    /\ UNCHANGED <<evars, idx>>

\* ClauseDB.add_clause
DbAddClause ==
    /\ db_len(cdb.dbs, Last) < MaxNodes
    /\ \E clause \in DbClauses :
       \E r \in {add_clause(cdb.dbs, Last, clause)} :
          cdb' = [CdbIdle EXCEPT !.dbs = r.dbs, !.err = r.err, !.op = "add_clause",
                                 !.head = clause.head, !.ret = r.ret,
                                 !.source_files = cdb.source_files]
    /\ UNCHANGED <<evars, idx>>

\* the databases with externally implemented predicates stay two nodes
\* smaller than the others
ExtBound == db_len(cdb.dbs, Last) < MaxNodes - 2

\* ClauseDB.add_extern
ExternHeads == {T1("p", None)}
DbAddExtern ==
    /\ ExtBound
    /\ \E head \in ExternHeads :
       \E r \in {add_extern(cdb.dbs, Last, head)} :
          cdb' = [CdbIdle EXCEPT !.dbs = r.dbs, !.err = r.err, !.op = "add_extern",
                                 !.head = head, !.ret = r.ret,
                                 !.source_files = cdb.source_files]
    /\ UNCHANGED <<evars, idx>>

DbInit == EngineIdle /\ idx = IdxIdle /\ cdb = CdbIdle
DbNext == DbExtend \/ DbAddFact \/ DbAddClause
DbSpec == DbInit /\ [][DbNext]_vars
\* the database with externally implemented predicates
ExtNext ==
    \/ ExtBound /\ DbExtend
    \/ ExtBound /\ DbAddFact
    \/ ExtBound /\ DbAddClause
    \/ DbAddExtern
ExtSpec == DbInit /\ [][ExtNext]_vars

(***************************************************************************)
(* Consulting files into the last database of a chain                      *)
(***************************************************************************)
ConsultNames == {PlainFile("a"), PlainFile("a.pl"), PlainFile("c"), PlainFile("d.pl"),
                 LibraryFile("m"), LibraryFile("c")}

\* ClauseDB.consult
DbConsult ==
    /\ db_len(cdb.dbs, Last) < MaxNodes
    /\ \E filename \in ConsultNames, failed \in MissingFileErrors :
       \E r \in {consult(cdb.dbs, Last, cdb.source_files, filename, failed)} :
          cdb' = [CdbIdle EXCEPT !.dbs = r.dbs, !.err = r.err, !.op = "consult",
                                 !.source_files = r.files, !.file = filename]
    /\ UNCHANGED <<evars, idx>>

ConsultNext == DbConsult \/ DbExtend
ConsultSpec == DbInit /\ [][ConsultNext]_vars

(***************************************************************************)
(* Compiling source items into the last database of a chain and iterating  *)
(* over it                                                                 *)
(***************************************************************************)
\* bound on the number of items compiled into one chain
MaxItems == 3
RtItems == {
    SFact(T1("f", K1), "0.5"),
    SFact(T1("f", K2), NoProb),
    SClause(T1("a", X0), SAnd(T1("f", X0), SNot(SOr(T1("g", X0), T2("h", X0, X1))))),
    SAD(<<PHead(T1("g", X0), "0.3"), PHead(T2("h", X0, K1), "0.7")>>, T1("f", X0)),
    [k |-> "clause", head |-> T1("b", X0), p |-> "0.4", body |-> T1("f", X0)] }

\* add_fact for a fact, add_clause for a clause or an annotated disjunction
RtAdd ==
    /\ Len(cdb.items) < MaxItems
    /\ \E item \in RtItems :
       \E r \in {IF item.k = "fact" THEN add_fact(cdb.dbs, Last, item.t, item.p)
                 ELSE add_clause(cdb.dbs, Last, item)} :
          cdb' = [CdbIdle EXCEPT !.dbs = r.dbs, !.err = r.err,
                                 !.op = IF item.k = "fact" THEN "add_fact" ELSE "add_clause",
                                 !.head = IF item.k = "fact" THEN item.t
                                          ELSE IF item.k = "ad" THEN item.heads[1].t
                                          ELSE item.head,
                                 !.ret = r.ret,
                                 !.items = Append(cdb.items, item)]
    /\ UNCHANGED <<evars, idx>>

\* ClauseDB.extend
RtExtend ==
    /\ Len(cdb.dbs) < MaxDBs
    /\ cdb.op # "extend"
    /\ cdb' = [CdbIdle EXCEPT !.dbs = extend(cdb.dbs, Last), !.op = "extend",
                               !.items = cdb.items]
    /\ UNCHANGED <<evars, idx>>

\* ClauseDB.__iter__ on the last database
RtIterate ==
    /\ cdb.op # "iter"
    /\ cdb' = [CdbIdle EXCEPT !.dbs = cdb.dbs, !.op = "iter", !.items = cdb.items,
                               !.iter = iter(cdb.dbs, Last)]
    /\ UNCHANGED <<evars, idx>>

RtNext == RtAdd \/ RtExtend \/ RtIterate
RtSpec == DbInit /\ [][RtNext]_vars

(***************************************************************************)
(* Properties of the event streams                                         *)
(***************************************************************************)
StreamIds == 1..Len(streams)
ProcIds == 1..Len(procs)
KindIds(kind) == {p \in ProcIds : procs[p].kind = kind}
\* the handle through which process p notifies its first listener
ParentStream(p) == streams[procs[p].listeners[1].h[2]]
\* the ground nodes process p received from its child, in arrival order
ChildGrounds(p) ==
    IF \E s \in StreamIds : streams[s].pid = p
    THEN With(streams[CHOOSE s \in StreamIds : streams[s].pid = p].log,
              LAMBDA lg : [i \in 1..Len(lg) |-> lg[i][2]])
    ELSE <<>>

\* C1: no listener handle receives a result after it has received complete
C1_ResultBeforeCompletion == \A s \in StreamIds : ~streams[s].late

\* C2: no listener handle receives complete more than once
C2_SingleCompletion == \A s \in StreamIds : streams[s].ncomp <= 1

\* C3: every evaluation ends, and when it ends with a result list every
\* definition cache entry is complete and each of its listeners has received
\* complete
C3_EntriesComplete ==
    status = "done" =>
        \A i \in 1..Len(def_nodes) :
            /\ procs[def_nodes[i][2]].isComplete
            /\ \A j \in 1..Len(procs[def_nodes[i][2]].listeners) :
                    streams[procs[def_nodes[i][2]].listeners[j].h[2]].ncomp >= 1
C4_Tabling ==
    /\ \A i, j \in 1..Len(def_nodes) : def_nodes[i][1] = def_nodes[j][1] => i = j
    /\ \A i, j \in 1..Len(execs) : execs[i] = execs[j] => i = j
    /\ Cardinality(KindIds("define")) = Len(def_nodes)
\* the shared body of an annotated disjunction was called from both heads
\* and executed once
C4_Witness ==
    /\ status = "done"
    /\ \E p \in KindIds("define") :
           /\ Len(procs[p].args) > 1 /\ procs[p].args[2] = Cst("multi")
           /\ Len(procs[p].listeners) >= 2
           /\ \E i \in 1..Len(execs) : execs[i] = <<procs[p].node_id, procs[p].args>>

\* the child of negation p has a deterministically true result
DetTrue(p) == SeqHas(ChildGrounds(p), TrueRef)

\* C5 as stated: a negation sends exactly one result, then one complete
C5_NegationOneResult ==
    \A p \in KindIds("not") :
        /\ procs[p].isComplete => ParentStream(p).nres = 1
        /\ ~ParentStream(p).late /\ ParentStream(p).ncomp <= 1
        /\ status = "done" => ParentStream(p).ncomp = 1
\* C5 amended: a negation sends one result, or none when a result of its
\* child is deterministically true, and then exactly one complete
C5_NegationAtMostOne ==
    \A p \in KindIds("not") :
        /\ procs[p].isComplete => ParentStream(p).nres = (IF DetTrue(p) THEN 0 ELSE 1)
        /\ ~ParentStream(p).late /\ ParentStream(p).ncomp <= 1
        /\ status = "done" => ParentStream(p).ncomp = 1
\* a negation over a deterministically true child has completed without a
\* result
C5_Witness ==
    \E p \in KindIds("not") :
        DetTrue(p) /\ ParentStream(p).ncomp = 1 /\ ParentStream(p).nres = 0

\* ref is the sink's not(or(refs))
IsNotOr(ref, refs) ==
    /\ ref > 0 /\ gp[ref].t = "not"
    /\ \/ Len(refs) = 1 /\ gp[ref].ch = refs
       \/ /\ Len(refs) > 1 /\ gp[ref].ch[1] > 0
          /\ gp[gp[ref].ch[1]].t = "or" /\ gp[gp[ref].ch[1]].ch = refs

\* C6 as stated: the single result of a negation carries the context of the
\* call and reference 0 when the child had no result, not(or(refs)) over
\* the child's references in arrival order otherwise
C6_NegationGroundRef ==
    \A p \in KindIds("not") :
        procs[p].isComplete =>
            /\ ParentStream(p).nres = 1
            /\ ParentStream(p).log[1][1] = procs[p].context
            /\ IF Len(ChildGrounds(p)) = 0 THEN ParentStream(p).log[1][2] = TrueRef
               ELSE IsNotOr(ParentStream(p).log[1][2], ChildGrounds(p))
\* C6 amended: the same, except that no result is sent when a result of the
\* child is deterministically true
C6_NegationGroundRefOrNone ==
    \A p \in KindIds("not") :
        procs[p].isComplete =>
            IF DetTrue(p) THEN ParentStream(p).nres = 0
            ELSE /\ ParentStream(p).nres = 1
                 /\ ParentStream(p).log[1][1] = procs[p].context
                 /\ IF Len(ChildGrounds(p)) = 0 THEN ParentStream(p).log[1][2] = TrueRef
                    ELSE IsNotOr(ParentStream(p).log[1][2], ChildGrounds(p))
\* a negation over two probabilistic results has sent its result
C6_Witness ==
    \E p \in KindIds("not") :
        /\ procs[p].isComplete /\ Len(ChildGrounds(p)) >= 2 /\ ~DetTrue(p)
        /\ ParentStream(p).nres = 1
\* a negation over a child without results has sent its result
C6_WitnessEmpty ==
    \E p \in KindIds("not") :
        procs[p].isComplete /\ Len(ChildGrounds(p)) = 0 /\ ParentStream(p).nres = 1

\* results minus completions received by process p on the handles 1..s
RECURSIVE PendingOf(_, _)
PendingOf(p, s) ==
    IF s = 0 THEN 0
    ELSE PendingOf(p, s - 1)
         + (IF streams[s].pid = p THEN streams[s].nres - streams[s].ncomp ELSE 0)

\* C7: the pending count of a conjunction is 1 plus the results of A minus
\* the completions received; once the conjunction has signalled complete
\* the count is 0 and every evaluation of B it spawned is complete
C7_ConjunctionCompletion ==
    \A p \in KindIds("link") :
        /\ procs[p].count = 1 + PendingOf(p, Len(streams))
        /\ procs[p].isComplete =>
              /\ procs[p].count = 0
              /\ \A q \in KindIds("and") :
                     procs[q].listeners[2].h[1] = p => procs[q].isComplete

(***************************************************************************)
(* Properties of the clause index                                          *)
(***************************************************************************)
\* the call pattern c is shape-compatible with the head h
RECURSIVE Compatible(_, _)
Compatible(c, h) ==
    \/ IsVar(c) \/ IsVar(h)
    \/ /\ c.f = h.f /\ Arity(c) = Arity(h)
       /\ \A i \in 1..Arity(c) : Compatible(c.args[i], h.args[i])

\* C8: a find after any appends and erases raises nothing and returns, in
\* the order of the appends, the compatible candidates that were not
\* erased and no erased one; the list of the index keeps every candidate
C8_EraseFind ==
    /\ idx.ci.list = [i \in 1..Len(idx.heads) |-> i]
    /\ idx.op = "find" =>
          /\ idx.err = ""
          /\ \A i \in 1..Len(idx.heads) :
                (Compatible(idx.term, idx.heads[i]) /\ i \notin idx.ci.erased)
                    => SeqHas(idx.res, i)
          /\ \A k \in 1..Len(idx.res) : idx.res[k] \notin idx.ci.erased
          /\ \A k \in 1..(Len(idx.res) - 1) : idx.res[k] < idx.res[k + 1]

\* C9: a find that returns holds every appended candidate whose head is
\* shape-compatible with the call pattern
C9_LookupComplete ==
    (idx.op = "find" /\ idx.ci.erased = {}) =>
        /\ idx.err = ""
        /\ \A i \in 1..Len(idx.heads) :
              Compatible(idx.term, idx.heads[i]) => SeqHas(idx.res, i)
\* a find returned two candidates appended with the same head and left out
\* a candidate
C9_Witness ==
    /\ idx.op = "find" /\ idx.err = "" /\ Len(idx.res) < Len(idx.heads)
    /\ \E i, j \in 1..Len(idx.heads) :
          /\ i # j /\ idx.heads[i] = idx.heads[j]
          /\ SeqHas(idx.res, i) /\ SeqHas(idx.res, j)

(***************************************************************************)
(* Properties of the database chain                                        *)
(***************************************************************************)
DbIds == 1..Len(cdb.dbs)
\* the define node that database d has for the predicate of a call node
HeadOf(d, call) == get_head(cdb.dbs, d, <<call.functor, Len(call.args)>>)

\* C10: in every database of a chain, a redirection leads from the define
\* index of the parent to a local define node that starts with the
\* candidates of the parent's node, and every call node resolves through
\* get_node to the define node the database has for its predicate
C10_OverrideRedirect ==
    \A d \in DbIds :
        /\ \A e \in 1..Len(cdb.dbs[d].redirect) :
              LET old == cdb.dbs[d].redirect[e][1]
                  new == cdb.dbs[d].redirect[e][2]
                  was == get_node(cdb.dbs, cdb.dbs[d].parent, old)
              IN /\ new >= cdb.dbs[d].offset
                 /\ get_node(cdb.dbs, d, old) = get_node(cdb.dbs, d, new)
                 /\ get_node(cdb.dbs, d, new).kind = "define"
                 /\ was.kind = "define" =>
                       SubSeq(get_node(cdb.dbs, d, new).children.list, 1,
                              Len(was.children.list)) = was.children.list
        /\ \A n \in 0..(db_len(cdb.dbs, d) - 1) :
              LET call == get_node(cdb.dbs, d, n)
              IN call.kind = "call" =>
                    get_node(cdb.dbs, d, call.defnode) = get_node(cdb.dbs, d, HeadOf(d, call))

(***************************************************************************)
(* Properties of the protected names of the database                       *)
(***************************************************************************)
DbAdds == {"add_fact", "add_clause"}

\* C11: add_fact or add_clause with a head whose functor is a reserved name
\* ("choice" or "body") raises AccessError and leaves the nodes and the head
\* index of the database unchanged
C11_ReservedNameRaises ==
    [][(cdb'.op \in DbAdds /\ cdb'.head.f \in ReservedNames)
          => (cdb'.err = "AccessError" /\ cdb'.dbs = cdb.dbs)]_vars

IsBuiltin(sig) == DictHas(Builtins, sig)
CallSig(node) == <<node.functor, Len(node.args)>>

\* C12: adding a fact or a clause for a signature that is a builtin raises
\* AccessError, in a root database and in a derived database; calling the
\* builtin in a clause body raises nothing and the call node holds the id of
\* the builtin
C12_BuiltinProtected ==
    /\ (cdb.op \in DbAdds /\ IsBuiltin(Sig(cdb.head))) => cdb.err = "AccessError"
    /\ (cdb.op = "add_clause" /\ ~IsBuiltin(Sig(cdb.head))) => cdb.err = ""
    /\ \A d \in DbIds : \A i \in 1..Len(cdb.dbs[d].nodes) :
          LET node == cdb.dbs[d].nodes[i]
          IN (node.kind = "call" /\ IsBuiltin(CallSig(node)))
                => node.defnode = DictGet(Builtins, CallSig(node), NoIdx)

\* a derived database that holds a call to true/0 refuses the fact true
C12_Witness ==
    /\ cdb.op = "add_fact" /\ cdb.head = T0("true") /\ cdb.err = "AccessError"
    /\ Len(cdb.dbs) >= 2
    /\ \E i \in 1..Len(cdb.dbs[Last].nodes) :
          /\ cdb.dbs[Last].nodes[i].kind = "call"
          /\ cdb.dbs[Last].nodes[i].functor = "true"
          /\ cdb.dbs[Last].nodes[i].defnode = -1

(***************************************************************************)
(* Properties of consult                                                   *)
(***************************************************************************)
\* C13: consult of a file name that does not resolve to an existing file
\* raises ConsultError, does not register the file in source_files and adds
\* no node
C13_MissingFileConsultError ==
    [][(cdb'.op = "consult" /\ resolve_filename(cdb'.file) \notin Disk)
          => /\ cdb'.err = "ConsultError"
             /\ cdb'.source_files = cdb.source_files
             /\ cdb'.dbs = cdb.dbs]_vars

(***************************************************************************)
(* Properties of the errors of the engine                                  *)
(***************************************************************************)
\* the evaluation is about to enter the empty node that a call node names
CallsEmpty ==
    /\ Running /\ top.op = "eval" /\ top.fromcall # NoIdx
    /\ getNode(top.fromcall).kind = "call"
    /\ getNode(getNode(top.fromcall).defnode).kind = "empty"

FactStreams == {s \in StreamIds : streams[s].fact # NoIdx}

\* the ground reference add_atom gives for the fact node f
FactRef(f, ref) ==
    IF getNode(f).probability = NoProb THEN ref = TrueRef
    ELSE /\ ref \in 1..Len(gp)
         /\ gp[ref].t = "atom"
         /\ gp[ref].key[1] = f

\* C15: the evaluation of a fact node whose arguments unify with the call
\* arguments sends one result, the arguments of the fact with the ground atom
\* add_atom(node_id, probability), and then complete; without unification it
\* sends complete alone
C15_FactEvaluation ==
    \A s \in FactStreams :
       LET st == streams[s]
           node == getNode(st.fact)
       IN /\ st.ncomp <= 1 /\ ~st.late
          /\ status = "done" => st.ncomp = 1
          /\ IF UnifyFact(node.args, st.call)
             THEN /\ st.nres <= 1
                  /\ st.ncomp = 1 => st.nres = 1
                  /\ st.nres = 1 => /\ st.log[1][1] = node.args
                                    /\ FactRef(st.fact, st.log[1][2])
             ELSE st.nres = 0

\* q(1), q(2) and q(3) called as q(X): the probabilistic fact q(2) has sent
\* the binding X = 2 with its atom and has completed
C15_Witness ==
    \E s \in FactStreams :
       /\ streams[s].call = <<None>>
       /\ getNode(streams[s].fact).probability # NoProb
       /\ streams[s].nres = 1 /\ streams[s].ncomp = 1
       /\ streams[s].log[1][1] = <<K2>>

(***************************************************************************)
(* Properties of the reconstruction iterator                               *)
(***************************************************************************)
\* the variable names of a term and of a source structure, in the order in
\* which compilation meets them
RECURSIVE TermVars(_)
TermVars(t) ==
    IF IsVar(t) THEN <<t.f>>
    ELSE IF Len(t.args) = 0 THEN <<>>
    ELSE IF Len(t.args) = 1 THEN TermVars(t.args[1])
    ELSE TermVars(t.args[1]) \o TermVars([t EXCEPT !.args = Tail(t.args)])
RECURSIVE StructVars(_)
StructVars(st) ==
    IF st.k \in {"and", "or"} THEN StructVars(st.op1) \o StructVars(st.op2)
    ELSE IF st.k = "not" THEN StructVars(st.child)
    ELSE IF st.k = "clause" THEN TermVars(st.head) \o StructVars(st.body)
    ELSE IF st.k = "ad"
    THEN TermVars(Tm("heads", [i \in 1..Len(st.heads) |-> st.heads[i].t]))
         \o StructVars(st.body)
    ELSE IF st.k = "fact" THEN TermVars(st.t)
    ELSE TermVars(st)

\* the index of a name: the number of distinct names met before it
VarIndex(names, name) ==
    LET first == CHOOSE i \in 1..Len(names) :
                    names[i] = name /\ \A j \in 1..(i - 1) : names[j] # name
    IN Cardinality({names[j] : j \in 1..(first - 1)})

\* a term and a structure with their variables numbered by first occurrence
RECURSIVE NumberTerm(_, _)
NumberTerm(t, names) ==
    IF IsVar(t) THEN Var(VarIndex(names, t.f))
    ELSE IF t.k = "t"
    THEN [t EXCEPT !.args = [i \in 1..Len(t.args) |-> NumberTerm(t.args[i], names)]]
    ELSE t
RECURSIVE NumberIn(_, _)
NumberIn(st, names) ==
    IF st.k \in {"and", "or"}
    THEN [st EXCEPT !.op1 = NumberIn(st.op1, names), !.op2 = NumberIn(st.op2, names)]
    ELSE IF st.k = "not" THEN [st EXCEPT !.child = NumberIn(st.child, names)]
    ELSE IF st.k = "clause"
    THEN [st EXCEPT !.head = NumberTerm(st.head, names), !.body = NumberIn(st.body, names)]
    ELSE IF st.k = "ad"
    THEN [st EXCEPT !.heads = [i \in 1..Len(st.heads) |->
                                 [st.heads[i] EXCEPT !.t = NumberTerm(@, names)]],
                    !.body = NumberIn(st.body, names)]
    ELSE IF st.k = "fact" THEN [st EXCEPT !.t = NumberTerm(st.t, names)]
    ELSE NumberTerm(st, names)
Numbered(st) == NumberIn(st, StructVars(st))

\* the yielded clauses that define the body of an annotated disjunction
IsBodyClause(out, c) ==
    c.k = "clause" /\ \E i \in 1..Len(out) : out[i].k = "ad" /\ out[i].body.f = c.head.f
\* a yielded annotated disjunction with the body of its body clause in place
\* of the call to it
Unfolded(out, ad) ==
    IF \E i \in 1..Len(out) : out[i].k = "clause" /\ out[i].head = ad.body
    THEN [ad EXCEPT !.body =
            out[CHOOSE i \in 1..Len(out) : out[i].k = "clause" /\ out[i].head = ad.body].body]
    ELSE ad
\* a compiled clause with a probability is the annotated disjunction of its head
AsAD(item) ==
    IF item.k = "clause" THEN SAD(<<PHead(item.head, item.p)>>, item.body) ELSE item

OfKind(items, kinds) == SelectSeq(items, LAMBDA it : it.k \in kinds)
Plain(items) == SelectSeq(items, LAMBDA it : it.k = "clause" /\ it.p = NoProb)
Disjunctions(items) ==
    SelectSeq(items, LAMBDA it : it.k = "ad" \/ (it.k = "clause" /\ it.p # NoProb))
NumberAll(items) == [i \in 1..Len(items) |-> Numbered(items[i])]

\* the items that out yields stand for the compiled items
RoundTrip(items, out) ==
    /\ OfKind(out, {"fact"}) = OfKind(items, {"fact"})
    /\ NumberAll(SelectSeq(Plain(out), LAMBDA c : ~IsBodyClause(out, c)))
          = NumberAll(Plain(items))
    /\ LET ads == OfKind(out, {"ad"})
       IN NumberAll([i \in 1..Len(ads) |-> Unfolded(out, ads[i])])
             = NumberAll([i \in 1..Len(Disjunctions(items)) |-> AsAD(Disjunctions(items)[i])])
    /\ \A i \in 1..Len(out) :
          IsBodyClause(out, out[i])
             => Cardinality({j \in 1..Len(out) : out[j].k = "ad" /\ out[j].body = out[i].head}) = 1

\* C16: iterating over a compiled database yields every ground fact once with
\* its functor, arguments and probability, every plain clause once with its
\* head and body structure, every annotated disjunction once with its heads
\* and probabilities, and nothing else but the body clauses of the annotated
\* disjunctions
C16_RoundTrip == cdb.op = "iter" => RoundTrip(cdb.items, cdb.iter)

(***************************************************************************)
(* Properties of find and of the values add_fact and add_clause return     *)
(***************************************************************************)
FindHeads == {T1("p", X0), T0("q"), T0("r")}
\* the chain of database d holds a define node for the signature of head
Defines(d, head) ==
    \E n \in 0..(db_len(cdb.dbs, d) - 1) :
       /\ get_node(cdb.dbs, d, n).kind = "define"
       /\ <<get_node(cdb.dbs, d, n).functor, get_node(cdb.dbs, d, n).arity>> = Sig(head)

\* C17: find(head) returns the index of the define node of the signature of
\* head, and None when there is no such define node, as for a predicate that
\* is called in a clause body and never defined
C17_FindDefine ==
    \A d \in DbIds : \A head \in FindHeads :
       LET r == find(cdb.dbs, d, head)
       IN IF Defines(d, head)
          THEN /\ r # NoIdx
               /\ get_node(cdb.dbs, d, r).kind = "define"
               /\ <<get_node(cdb.dbs, d, r).functor, get_node(cdb.dbs, d, r).arity>>
                     = Sig(head)
          ELSE r = NoIdx

\* C18: add_fact and add_clause return the position of the define node of the
\* predicate they add to, the node whose candidate list holds the new fact or
\* clause
C18_ReturnsDefine ==
    (cdb.op \in DbAdds /\ cdb.err = "")
       => LET node == get_node(cdb.dbs, Last, cdb.ret)
          IN /\ cdb.ret # NoIdx
             /\ node.kind = "define"
             /\ <<node.functor, node.arity>> = Sig(cdb.head)
             /\ \E i \in 1..Len(node.children.list) :
                   LET c == get_node(cdb.dbs, Last, node.children.list[i])
                   IN c.kind \in {"fact", "clause"} /\ NodeTerm(c) = cdb.head

(***************************************************************************)
(* Properties of the RuntimeError handler of execute                       *)
(***************************************************************************)
\* C19: when the recursion ceiling of the host is hit during execute the
\* caller observes CallStackError and never the RuntimeError itself; any
\* other RuntimeError reaches the caller unchanged
C19_RecursionConverted ==
    /\ query.raised \in RecursionMessages => status = "CallStackError"
    /\ query.raised \in OtherMessages
          => status = "RuntimeError: " \o query.raised[1] \o query.raised[2]
    /\ status = "CallStackError" => query.raised \in RecursionMessages

\* the ceiling was hit inside a comparison while definitions were being
\* evaluated
C19_Witness ==
    /\ query.raised = <<"maximum recursion depth exceeded", " in comparison">>
    /\ status = "CallStackError"
    /\ Len(def_nodes) >= 2

(***************************************************************************)
(* Properties of cycle detection                                           *)
(***************************************************************************)
CycleIds == KindIds("cycle")
Owner(c) == procs[c].parent[1]
\* the stream on which the owner notifies its cycle child c
OwnerStream(c) ==
    streams[procs[Owner(c)].listeners[
                CHOOSE i \in 1..Len(procs[Owner(c)].listeners) :
                    procs[Owner(c)].listeners[i].h[1] = c].h[2]]
IsPrefix(a, b) == Len(a) <= Len(b) /\ SubSeq(b, 1, Len(a)) = a

\* a call of a definition reaches a key whose entry is the calling
\* definition or one of its transitive ancestors
CycleCall ==
    /\ IsEval("define") /\ top.cdef # 0
    /\ DictHas(def_nodes, <<top.node, top.ctx>>)
    /\ DictGet(def_nodes, <<top.node, top.ctx>>, 0) \in getAncestors(procs, top.cdef)

\* the cycle listeners: each listens to its owner and has the caller as its
\* one listener; the owner is cyclic once the listener is its cycle child and
\* is executed at most once; what the listener received from the owner it
\* forwards unchanged; it is complete only after the execute of the owner
\* has finished, and complete when the evaluation ends
C20_CycleListener ==
    \A c \in CycleIds :
       /\ procs[Owner(c)].kind = "define"
       /\ Len(procs[c].listeners) = 1
       /\ \E i \in 1..Len(procs[Owner(c)].listeners) :
             procs[Owner(c)].listeners[i].h[1] = c
       /\ SeqHas(procs[Owner(c)].children, c) => procs[Owner(c)].is_cyclic
       /\ Cardinality({i \in 1..Len(execs) :
              execs[i] = <<procs[Owner(c)].node_id, procs[Owner(c)].args>>}) <= 1
       /\ IsPrefix(ParentStream(c).log, OwnerStream(c).log)
       /\ (procs[c].isComplete \/ ParentStream(c).ncomp >= 1)
             => procs[Owner(c)].execute_completed
       /\ status = "done" => /\ SeqHas(procs[Owner(c)].children, c)
                              /\ procs[c].isComplete
                              /\ ParentStream(c).ncomp >= 1
                              /\ ParentStream(c).log = OwnerStream(c).log

\* C20: a call that reaches a cache key whose entry is the calling definition
\* or one of its ancestors evaluates nothing again and starts the cycle
\* listener (unless the host ends the evaluation at that step); the owner
\* becomes cyclic, the listener forwards the results of
\* the owner to the caller and is completed when the execute of the owner
\* has finished
C20_CycleDetection ==
    /\ []C20_CycleListener
    /\ [][(CycleCall /\ status' = "running")
            => /\ execs' = execs /\ def_nodes' = def_nodes /\ procs' = procs
               /\ Len(stack') = Len(stack) + 1
               /\ stack'[Len(stack')].op = "propagateCyclic"
               /\ stack'[Len(stack)].op = "cycleInit"]_vars

\* a cycle listener of a cyclic owner has forwarded a result and is complete
C20_Witness ==
    \E c \in CycleIds :
       /\ status = "done"
       /\ procs[Owner(c)].is_cyclic /\ procs[c].isComplete
       /\ Owner(c) # procs[c].listeners[1].h[1]
       /\ Len(ParentStream(c).log) >= 1

(***************************************************************************)
(* Properties of the cyclic flag and of the result buffer                  *)
(***************************************************************************)
DefineIds == KindIds("define")

\* C21: a cyclic flag that is set stays set in every later state of the run
C21_CyclicMonotonic ==
    [][\A p \in DefineIds : procs[p].is_cyclic => procs'[p].is_cyclic]_vars

\* the setter is about to run on an entry whose flag is already set
C21_Witness ==
    /\ IsOp("setCyclic") /\ procs[top.pid].is_cyclic
    /\ \E c \in KindIds("cycle") : TRUE

\* the entries on the ancestor paths from definition d up to the owner p
OnCycle(d, p) == {x \in getAncestors(procs, d) : p \in getAncestors(procs, x)}

ReuseListeners(p) ==
    {j \in 2..Len(procs[p].listeners) : procs[procs[p].listeners[j].h[1]].kind # "cycle"}
ListenerLog(p, j) == streams[procs[p].listeners[j].h[2]].log
LogSet(lg) == {lg[i] : i \in 1..Len(lg)}
Bindings(lg) == {lg[i][1] : i \in 1..Len(lg)}
OncePerBinding(lg) == \A i, k \in 1..Len(lg) : lg[i][1] = lg[k][1] => i = k

\* the entry was executed at most once
ExecutedOnce(p) ==
    Cardinality({i \in 1..Len(execs) : execs[i] = <<procs[p].node_id, procs[p].args>>}) <= 1

\* C23: a listener attached to an existing entry by a call that is not a
\* cycle receives each result of the entry once, the entry is not executed
\* again, and when the evaluation has ended the listener has received
\* complete and the same results as the first listener of the entry
C23_ReplayOnReuse ==
    \A p \in DefineIds :
       /\ ExecutedOnce(p)
       /\ \A j \in ReuseListeners(p) :
             /\ OncePerBinding(ListenerLog(p, j))
             /\ status = "done" =>
                   /\ LogSet(ListenerLog(p, j)) = LogSet(ListenerLog(p, 1))
                   /\ streams[procs[p].listeners[j].h[2]].ncomp >= 1

(***************************************************************************)
(* Properties of the result buffer of a definition cache entry             *)
(***************************************************************************)
\* the results entry p has received, in arrival order
InputLog(p) ==
    IF \E s \in StreamIds : streams[s].pid = p
    THEN streams[CHOOSE s \in StreamIds : streams[s].pid = p].log
    ELSE <<>>
\* the ground references of the derivations of binding b, in arrival order
Derivations(lg, b) ==
    With(SelectSeq(lg, LAMBDA e : e[1] = b), LAMBDA sel : [i \in 1..Len(sel) |-> sel[i][2]])
\* r is the reference of a finalized disjunction of the references nodes
IsOrOf(r, nodes) ==
    IF Len(nodes) = 1 THEN r = nodes[1]
    ELSE IF SeqHas(nodes, TrueRef) THEN r = TrueRef
    ELSE /\ r > 0 /\ gp[r].t = "or" /\ gp[r].ro
         /\ gp[r].ch = SeqDrop(nodes, NoRef)
\* the log lg holds one result for each binding of the input log, with the
\* disjunction of its derivations
OnePerBinding(lg, input) ==
    /\ OncePerBinding(lg)
    /\ Bindings(lg) = Bindings(input)
    /\ \A i \in 1..Len(lg) : IsOrOf(lg[i][2], Derivations(input, lg[i][1]))

Accumulated(p, b) ==
    /\ DictHas(procs[p].results, b)
    /\ With(DictGet(procs[p].results, b, NoRef), LAMBDA r :
            /\ r > 0 /\ gp[r].t = "or" /\ ~gp[r].ro
            /\ With(Derivations(InputLog(p), b), LAMBDA ds :
                    /\ Len(gp[r].ch) = Len(ds)
                    /\ \A i \in 1..Len(ds) : SeqHas(gp[r].ch, ds[i]))
            /\ \A i \in 1..Len(ListenerLog(p, 1)) :
                    ListenerLog(p, 1)[i][1] = b => ListenerLog(p, 1)[i][2] = r)

\* C25: once an entry is cyclic and its buffer has been flushed, every
\* binding it received has one or-node that is not finalized and holds each
\* derivation of the binding, buffered or not, as a disjunct; the listeners
\* were sent that or-node and no other for the binding
C25_Accumulation ==
    \A p \in DefineIds :
       (procs[p].is_cyclic /\ procs[p].buffer = <<>>)
          => \A b \in Bindings(InputLog(p)) : Accumulated(p, b)

\* newResultUnbuffered is about to call add_disjunct: the entry is cyclic and
\* the binding of the result is in its result table
AddsDisjunct ==
    /\ IsRes({"define"}) /\ procs[top.h[1]].is_cyclic
    /\ DictHas(procs[top.h[1]].results, top.result)
\* the reference add_disjunct is about to be called on
DisjunctTarget == DictGet(procs[top.h[1]].results, top.result, NoRef)

LinkIds == KindIds("link")
\* the ProcessAnd nodes conjunction p has created, in the order of creation
AndsOf(p) == SelectSeq([q \in ProcIds |-> q],
                       LAMBDA q : procs[q].kind = "and" /\ procs[q].listeners[2].h[1] = p)
\* the results of A that conjunction p has received
ResultsOfA(p) ==
    IF \E s \in StreamIds : streams[s].pid = p /\ streams[s].nres > 0
    THEN streams[CHOOSE s \in StreamIds : streams[s].pid = p /\ streams[s].nres > 0].log
    ELSE <<>>
\* what the parent of conjunction p has received
ParentLog(p) == streams[procs[p].parent[2]].log
RECURSIVE SumLen(_, _)
SumLen(qs, i) == IF i > Len(qs) THEN 0 ELSE Len(InputLog(qs[i])) + SumLen(qs, i + 1)
\* r is the reference of the conjunction of the references a and b
IsAndOf(r, a, b) ==
    IF a = NoRef \/ b = NoRef THEN r = NoRef
    ELSE IF a = TrueRef THEN r = b
    ELSE IF b = TrueRef THEN r = a
    ELSE r > 0 /\ gp[r].t = "and" /\ gp[r].ch = <<a, b>>

\* one evaluation of B per result of A, holding the reference of that result
C27_OnePerResult ==
    \A p \in LinkIds :
       /\ Len(AndsOf(p)) = Len(ResultsOfA(p))
       /\ \A k \in 1..Len(AndsOf(p)) : procs[AndsOf(p)[k]].first_node = ResultsOfA(p)[k][2]
       /\ Len(ParentLog(p)) <= SumLen(AndsOf(p), 1)
\* when the evaluation has ended the parent has received each result of each
\* evaluation of B, with the conjunction of the two references
C27_Forwarded ==
    status = "done" =>
       \A p \in LinkIds :
          /\ Len(ParentLog(p)) = SumLen(AndsOf(p), 1)
          /\ \A i \in 1..Len(ParentLog(p)) : \E k \in 1..Len(AndsOf(p)) :
                \E j \in 1..Len(InputLog(AndsOf(p)[k])) :
                   /\ InputLog(AndsOf(p)[k])[j][1] = ParentLog(p)[i][1]
                   /\ IsAndOf(ParentLog(p)[i][2], procs[AndsOf(p)[k]].first_node,
                              InputLog(AndsOf(p)[k])[j][2])
          /\ \A k \in 1..Len(AndsOf(p)) : \A j \in 1..Len(InputLog(AndsOf(p)[k])) :
                \E i \in 1..Len(ParentLog(p)) :
                   /\ InputLog(AndsOf(p)[k])[j][1] = ParentLog(p)[i][1]
                   /\ IsAndOf(ParentLog(p)[i][2], procs[AndsOf(p)[k]].first_node,
                              InputLog(AndsOf(p)[k])[j][2])

\* C27: a conjunction starts one evaluation of B for each result of A, in
\* the context of that result, and its parent receives each result of each
\* of these evaluations with the conjunction of the two ground references:
\* as many results as the evaluations of B have together
C27_ConjunctionResults ==
    /\ [](C27_OnePerResult /\ C27_Forwarded)
    /\ [][(IsRes({"link"}) /\ status' = "running")
            => /\ Len(stack') = Len(stack)
               /\ stack'[Len(stack')].op = "eval"
               /\ stack'[Len(stack')].node = procs[top.h[1]].node_id
               /\ stack'[Len(stack')].ctx = top.result
               /\ stack'[Len(stack')].h[1] = Len(procs')
               /\ procs'[Len(procs')].kind = "and"
               /\ procs'[Len(procs')].first_node = top.ground]_vars

\* A had three results, whose evaluations of B had 0, 1 and 2 results, and
\* the parent has received three results
C27_Witness ==
    /\ status = "done"
    /\ \E p \in LinkIds :
          /\ Len(AndsOf(p)) = 3 /\ Len(ParentLog(p)) = 3
          /\ Len(InputLog(AndsOf(p)[1])) = 0
          /\ Len(InputLog(AndsOf(p)[2])) = 1
          /\ Len(InputLog(AndsOf(p)[3])) = 2

OrIds == KindIds("or")
\* the handles on which disjunction p has received events, one per child
ChildStreams(p) == {s \in StreamIds : streams[s].pid = p}
RECURSIVE CompletesUpTo(_, _)
CompletesUpTo(p, i) ==
    IF i = 0 THEN 0
    ELSE (IF streams[i].pid = p THEN streams[i].ncomp ELSE 0) + CompletesUpTo(p, i - 1)
RECURSIVE ResultsUpTo(_, _)
ResultsUpTo(p, i) ==
    IF i = 0 THEN 0
    ELSE (IF streams[i].pid = p THEN streams[i].nres ELSE 0) + ResultsUpTo(p, i - 1)
CompletesOf(p) == CompletesUpTo(p, Len(streams))
ResultsOf(p) == ResultsUpTo(p, Len(streams))
\* the number of children disjunction p was created for
CountOf(p) == procs[p].count + CompletesOf(p)
Signalled(p) == procs[p].isComplete \/ ParentStream(p).ncomp > 0

\* C28: a disjunction created for n children forwards every child result
\* to its listener unchanged, signals complete only after it has received n
\* complete events, one per child, and signals complete at once when n = 0;
\* a definition without candidate clauses completes with zero results.
C28_Forwards ==
    \A p \in OrIds :
        /\ Len(ParentStream(p).log) <= ResultsOf(p)
        /\ \A i \in 1..Len(ParentStream(p).log) :
              \E s \in ChildStreams(p) : \E j \in 1..Len(streams[s].log) :
                  streams[s].log[j] = ParentStream(p).log[i]
        /\ status = "done" =>
              /\ Len(ParentStream(p).log) = ResultsOf(p)
              /\ \A s \in ChildStreams(p) : \A j \in 1..Len(streams[s].log) :
                    \E i \in 1..Len(ParentStream(p).log) :
                        streams[s].log[j] = ParentStream(p).log[i]
C28_CompleteAfterAll ==
    \A p \in OrIds :
        Signalled(p) =>
            /\ CompletesOf(p) >= CountOf(p)
            /\ Cardinality({s \in ChildStreams(p) : streams[s].ncomp > 0}) >= CountOf(p)
C28_CompleteAtOnce ==
    \A p \in OrIds :
        (CountOf(p) = 0 /\ status = "running")
           => \/ procs[p].isComplete
              \/ IsOp("notifyComplete") /\ top.pid = p
C28_NoCandidates ==
    \A p \in OrIds :
        (/\ CountOf(p) = 0
         /\ status = "done"
         /\ procs[procs[p].listeners[1].h[1]].kind = "define")
           => /\ procs[procs[p].listeners[1].h[1]].isComplete
              /\ ListenerLog(procs[p].listeners[1].h[1], 1) = <<>>
              /\ streams[procs[procs[p].listeners[1].h[1]].listeners[1].h[2]].ncomp = 1
C28_DisjunctionCounter ==
    /\ [](C28_Forwards /\ C28_CompleteAfterAll /\ C28_CompleteAtOnce /\ C28_NoCandidates)
    /\ [][\A p \in OrIds : CountOf(p)' = CountOf(p)]_vars
C28_Witness ==
    /\ status = "done"
    /\ \E p \in OrIds :
          /\ CountOf(p) = 0
          /\ procs[procs[p].listeners[1].h[1]].kind = "define"
    /\ \E q \in OrIds : CountOf(q) >= 2 /\ ResultsOf(q) >= 1 /\ procs[q].isComplete

(***************************************************************************)
(* Properties of the order of the results                                  *)
(***************************************************************************)
\* the results disjunction p has received on the handles 1..i, child by child
RECURSIVE ConcatUpTo(_, _)
ConcatUpTo(p, i) ==
    IF i = 0 THEN <<>>
    ELSE ConcatUpTo(p, i - 1) \o (IF streams[i].pid = p THEN streams[i].log ELSE <<>>)
ChildConcat(p) == ConcatUpTo(p, Len(streams))
\* what conjunction p forwards for the results of B, one ProcessAnd after the other
RECURSIVE AndConcat(_, _)
AndConcat(qs, i) ==
    IF i > Len(qs) THEN <<>>
    ELSE [k \in 1..Len(InputLog(qs[i])) |->
             <<InputLog(qs[i])[k][1], procs[qs[i]].first_node, InputLog(qs[i])[k][2]>>]
         \o AndConcat(qs, i + 1)
\* lg is full, or full without the result that is being forwarded
UpToLast(lg, full) ==
    \/ Len(lg) = Len(full)
    \/ Len(lg) + 1 = Len(full)
DisjunctionOrder(p) ==
    With(ChildConcat(p), LAMBDA full :
        /\ UpToLast(ParentStream(p).log, full)
        /\ \A k \in 1..Len(ParentStream(p).log) : ParentStream(p).log[k] = full[k])
ConjunctionOrder(p) ==
    With(AndConcat(AndsOf(p), 1), LAMBDA full :
        /\ UpToLast(ParentLog(p), full)
        /\ \A k \in 1..Len(ParentLog(p)) :
              /\ ParentLog(p)[k][1] = full[k][1]
              /\ IsAndOf(ParentLog(p)[k][2], full[k][2], full[k][3]))
\* the first child of the disjunction of the queried definition that derived b
RankOf(b) ==
    CHOOSE s \in ChildStreams(3) :
        /\ \E k \in 1..Len(streams[s].log) : streams[s].log[k][1] = b
        /\ \A t \in ChildStreams(3) :
              (\E k \in 1..Len(streams[t].log) : streams[t].log[k][1] = b) => s <= t
\* C29: within one evaluation the results are in depth-first, left-to-right
\* order, which makes the result sequence the same in every run: what a
\* disjunction forwards is the results of its first child, then those of its
\* second child, and so on; what a conjunction forwards is what it derived
\* from the first result of A, then from the second, and so on; and in the
\* top-level result list a binding first derived by an earlier clause of the
\* queried definition precedes one first derived by a later clause.
C29_DisjunctionOrder == \A p \in OrIds : DisjunctionOrder(p)
C29_ConjunctionOrder == \A p \in LinkIds : ConjunctionOrder(p)
C29_TopLevelOrder ==
    (Len(procs) >= 3 /\ procs[2].kind = "define" /\ procs[3].kind = "or")
       => \A i, j \in 1..Len(procs[1].results) :
             i < j => RankOf(procs[1].results[i][1]) <= RankOf(procs[1].results[j][1])
C29_ResultOrder == C29_DisjunctionOrder /\ C29_ConjunctionOrder /\ C29_TopLevelOrder

(***************************************************************************)
(* Properties of local unification failure                                 *)
(***************************************************************************)
CallReturnIds == KindIds("callret")
UnifyReturn(p, res) == UnifyInto(procs[p].args, res, 1, procs[p].context)
\* what call return p forwards for the results it has received
Forwarded(p) ==
    With(SelectSeq(InputLog(p), LAMBDA e : UnifyReturn(p, e[1]).ok), LAMBDA sel :
        [k \in 1..Len(sel) |-> <<UnifyReturn(p, sel[k][1]).context, sel[k][2]>>])
\* the candidate clauses of definition entry p
Candidates(p) ==
    With(getNode(procs[p].node_id), LAMBDA node :
        ci_find(node.children, CallTerm(node.functor, procs[p].args)).res)
\* the fact or the head of the clause k does not unify with the call arguments
FailsLocally(k, args) ==
    With(getNode(k), LAMBDA node :
        \/ node.kind = "fact" /\ ~UnifyFact(node.args, args)
        \/ /\ node.kind = "clause"
           /\ ~UnifyInto(node.args, args, 1, [i \in 1..node.varcount |-> None]).ok)
AllFail(p) ==
    With(Candidates(p), LAMBDA cs :
        Len(cs) > 0 /\ \A i \in 1..Len(cs) : FailsLocally(cs[i], procs[p].args))

\* C30: a unification failure in a fact, in a clause head or in a call return
\* never raises: the fact or clause sends no result and one complete, and a
\* call return drops the failing result and forwards the other results and
\* the completion.
C30_FailedCandidates ==
    \A p \in DefineIds :
        AllFail(p) =>
            /\ ListenerLog(p, 1) = <<>>
            /\ ParentStream(p).ncomp <= 1
            /\ status = "done" => procs[p].isComplete /\ ParentStream(p).ncomp = 1
C30_CallReturn ==
    \A p \in CallReturnIds :
        With(Forwarded(p), LAMBDA full :
            /\ UpToLast(ParentStream(p).log, full)
            /\ \A k \in 1..Len(ParentStream(p).log) : ParentStream(p).log[k] = full[k]
            /\ status = "done" =>
                  /\ Len(ParentStream(p).log) = Len(full)
                  /\ CompletesUpTo(p, Len(streams)) >= 1 => ParentStream(p).ncomp >= 1)
C30_FailureStep ==
    /\ (IsEval("fact") /\ ~UnifyFact(TopNode.args, top.ctx))
          => /\ stack' = rest \o <<FComp(top.h)>>
             /\ status' = "running" /\ gp' = gp /\ procs' = procs
    /\ (IsEval("clause")
          /\ ~UnifyInto(TopNode.args, top.ctx, 1, [i \in 1..TopNode.varcount |-> None]).ok)
          => /\ stack' = rest \o <<FComp(top.h)>>
             /\ status' = "running" /\ gp' = gp /\ procs' = procs /\ streams' = streams
    /\ (IsRes({"callret"}) /\ ~UnifyReturn(top.h[1], top.result).ok)
          => /\ stack' = rest
             /\ status' = "running" /\ gp' = gp /\ procs' = procs
C30_SilentFailure ==
    /\ [](C30_FailedCandidates /\ C30_CallReturn)
    /\ [][query'.raised = NoMessage => C30_FailureStep]_vars
\* b(X, X) has dropped b(1, 2) of three results, c(1, 2) has found the head
\* c(X, X) alone and a call has found a single fact that does not unify
C30_Witness ==
    /\ status = "done"
    /\ \E p \in CallReturnIds :
          /\ Len(InputLog(p)) = 3
          /\ Len(ParentStream(p).log) = 2
          /\ ParentStream(p).ncomp = 1
    /\ \E p \in DefineIds : AllFail(p) /\ getNode(Candidates(p)[1]).kind = "clause"
    /\ \E p \in DefineIds : AllFail(p) /\ getNode(Candidates(p)[1]).kind = "fact"

(***************************************************************************)
(* Properties of the evaluation of choice nodes                            *)
(***************************************************************************)
\* ref is the atom of an alternative of an annotated disjunction
ChoiceAtom(ref) == ref \in 1..Len(gp) /\ gp[ref].t = "atom" /\ gp[ref].key[3] >= 0
\* the handles on which a call return has received the result of a choice node
ChoiceStreams ==
    {s \in StreamIds :
        /\ streams[s].nres > 0
        /\ streams[s].pid \in CallReturnIds
        /\ ChoiceAtom(streams[s].log[1][2])
        /\ streams[s].log[1][1] = gp[streams[s].log[1][2]].key[2]}

\* C31: a choice node evaluated with call arguments that are not ground
\* raises NonGroundProbabilisticClause and sends neither result nor complete;
\* with ground arguments it sends one result, the call arguments, and then
\* one complete.
C31_ChoiceStep ==
    IsEval("choice") =>
        /\ streams[top.h[2]].nres = 0 /\ streams[top.h[2]].ncomp = 0
        /\ IF AllGround(top.ctx)
           THEN /\ status' = "running"
                /\ \E ref \in 1..Len(gp') :
                      /\ gp'[ref].t = "atom"
                      /\ gp'[ref].key = <<TopNode.group, top.ctx, TopNode.choice>>
                      /\ stack' = rest \o <<FComp(top.h), FRes(top.h, top.ctx, ref)>>
           ELSE /\ status' = "NonGroundProbabilisticClause"
                /\ stack' = <<>>
                /\ gp' = gp /\ streams' = streams /\ procs' = procs
C31_ChoiceStreams ==
    \A s \in ChoiceStreams :
        /\ streams[s].nres = 1 /\ streams[s].ncomp <= 1 /\ ~streams[s].late
        /\ AllGround(streams[s].log[1][1])
        /\ status = "done" => streams[s].ncomp = 1
C31_ChoiceEvaluation ==
    /\ [](C31_ChoiceStreams)
    /\ [][query'.raised = NoMessage => C31_ChoiceStep]_vars
\* a(1) has had its choice and the choice of a(X) has raised
C31_Witness ==
    /\ status = "NonGroundProbabilisticClause"
    /\ \E s \in ChoiceStreams : streams[s].ncomp = 1

\* the identifier _eval_choice asks the atom for
ChoiceKey == <<TopNode.group, top.ctx, TopNode.choice>>
ChoiceAtoms == {r \in 1..Len(gp) : ChoiceAtom(r)}
\* the mutual-exclusion group of a choice atom: group id and ground arguments
GroupOf(r) == <<gp[r].key[1], gp[r].key[2]>>

\* C32: two evaluations of one choice node with the same ground arguments
\* ask for the atom with the same identifier and share one atom; two
\* alternatives of one annotated disjunction with the same ground arguments
\* ask for different identifiers, whose atoms are in the same group.
C32_OneAtomPerKey ==
    \A r1, r2 \in ChoiceAtoms : gp[r1].key = gp[r2].key => r1 = r2
C32_ChoiceStep ==
    (IsEval("choice") /\ AllGround(top.ctx) /\ status' = "running") =>
        \E r \in 1..Len(gp') :
            /\ stack'[Len(stack')] = FRes(top.h, top.ctx, r)
            /\ gp'[r].t = "atom" /\ gp'[r].key = ChoiceKey
            /\ (\E x \in ChoiceAtoms : gp[x].key = ChoiceKey)
                  => gp' = gp /\ gp[r].key = ChoiceKey
            /\ \A x \in ChoiceAtoms :
                  (GroupOf(x) = <<TopNode.group, top.ctx>> /\ gp[x].key[3] # TopNode.choice)
                     => /\ x # r
                        /\ gp'[x].key # gp'[r].key
                        /\ <<gp'[x].key[1], gp'[x].key[2]>> = <<gp'[r].key[1], gp'[r].key[2]>>
C32_ChoiceAtomIdentity ==
    /\ [](C32_OneAtomPerKey)
    /\ [][C32_ChoiceStep]_vars
\* the first alternative is evaluated with the argument 1 when its atom and
\* the atom of the second alternative for 1 exist
C32_Witness ==
    /\ IsEval("choice") /\ AllGround(top.ctx)
    /\ \E x \in ChoiceAtoms : gp[x].key = ChoiceKey
    /\ \E x \in ChoiceAtoms :
          GroupOf(x) = <<TopNode.group, top.ctx>> /\ gp[x].key[3] # TopNode.choice

(***************************************************************************)
(* Properties of the compilation of annotated disjunctions                 *)
(***************************************************************************)
\* the heads of a source item that is compiled as an annotated disjunction
HeadsOf(item) ==
    IF item.k = "ad" THEN item.heads ELSE <<[t |-> item.head, p |-> item.p]>>
IsDisjunction(item) == item.k = "ad" \/ (item.k = "clause" /\ item.p # NoProb)
\* the indices of the nodes of kind kind among the nodes first..last of the
\* last database of the chain dbs, in ascending order
NodesOfKind(dbs, first, last, Test(_)) ==
    SelectSeq([j \in 1..(last - first + 1) |-> first + j - 1],
              LAMBDA n : Test(get_node(dbs, Len(dbs), n)))
\* the nodes first..last of dbs are the compilation of the heads hs
DisjunctionShape(dbs, first, last, hs) ==
    With(NodesOfKind(dbs, first, last, LAMBDA nd : nd.kind = "choice"), LAMBDA cs :
    With(NodesOfKind(dbs, first, last, LAMBDA nd : nd.kind = "clause" /\ nd.group # NoGroup),
         LAMBDA hc :
    With(NodesOfKind(dbs, first, last, LAMBDA nd : nd.kind = "clause" /\ nd.group = NoGroup),
         LAMBDA bc :
        /\ Len(bc) = 1 /\ Len(cs) = Len(hs) /\ Len(hc) = Len(hs)
        /\ \A i \in 1..Len(hs) :
              With(get_node(dbs, Len(dbs), cs[i]), LAMBDA choice :
              With(get_node(dbs, Len(dbs), hc[i]), LAMBDA head :
                  /\ choice.group = get_node(dbs, Len(dbs), cs[1]).group
                  /\ choice.choice = i - 1
                  /\ choice.probability = hs[i].p
                  /\ head.group = choice.group
                  /\ head.functor = hs[i].t.f /\ head.args = hs[i].t.args
                  /\ With(get_node(dbs, Len(dbs), head.child), LAMBDA body :
                        /\ body.kind = "conj"
                        /\ With(get_node(dbs, Len(dbs), body.children[1]), LAMBDA c1 :
                              /\ c1.kind = "call"
                              /\ With(get_node(dbs, Len(dbs), c1.defnode), LAMBDA df :
                                    df.kind = "define" /\ df.children.list = <<bc[1]>>))
                        /\ With(get_node(dbs, Len(dbs), body.children[2]), LAMBDA c2 :
                              c2.kind = "call" /\ c2.defnode = cs[i])))))))

\* C33: the compilation of an annotated disjunction with k heads creates one
\* body clause under one body definition, k choice nodes with one group id,
\* the choice indices 0..k-1 and their own probabilities, and k head clauses
\* with that group id, the i-th with the body (call of the body definition,
\* call of choice node i).
C33_DisjunctionCompilation ==
    [][(/\ cdb'.op = "add_clause" /\ cdb'.err = ""
        /\ Len(cdb'.items) = Len(cdb.items) + 1
        /\ IsDisjunction(cdb'.items[Len(cdb'.items)]))
          => DisjunctionShape(cdb'.dbs, db_len(cdb.dbs, Last), db_len(cdb'.dbs, Last) - 1,
                              HeadsOf(cdb'.items[Len(cdb'.items)]))]_vars
\* a disjunction with two heads has been compiled into a derived database
C33_Witness ==
    /\ cdb.op = "add_clause" /\ cdb.err = ""
    /\ Len(cdb.items) > 0 /\ cdb.items[Len(cdb.items)].k = "ad"
    /\ Len(cdb.dbs) > 1
    /\ Len(NodesOfKind(cdb.dbs, cdb.dbs[Last].offset, db_len(cdb.dbs, Last) - 1,
                        LAMBDA nd : nd.kind = "choice")) >= 2

(***************************************************************************)
(* Properties of the extension of a database                               *)
(***************************************************************************)
IsAdd(op) == op \in {"add_fact", "add_clause", "add_extern"}
\* the nodes, the head index and the redirections of database d, as its own
\* methods give them
ParentView(dbs, d) ==
    [len |-> db_len(dbs, d),
     nodes |-> [i \in 0..(db_len(dbs, d) - 1) |-> get_node(dbs, d, i)],
     heads |-> dbs[d].heads,
     local |-> dbs[d]]

\* C34: add_fact and add_clause on a derived database leave every database
\* below it as it was: same length, same node at every index, same head
\* index, same candidate list in every define node; and _set_node raises
\* IndexError for every index below the offset of the database.
C34_SetNodeBelowOffset ==
    \A d \in 1..Len(cdb.dbs) :
        \A i \in 0..(db_len(cdb.dbs, d) - 1) :
            set_node_raises(cdb.dbs, d, i) <=> (d > 1 /\ i < db_len(cdb.dbs, d - 1))
C34_ParentUntouched ==
    /\ [](C34_SetNodeBelowOffset)
    /\ [][IsAdd(cdb'.op) =>
            /\ Len(cdb'.dbs) = Len(cdb.dbs)
            /\ \A d \in 1..(Len(cdb.dbs) - 1) :
                  ParentView(cdb'.dbs, d) = ParentView(cdb.dbs, d)]_vars
\* a fact or clause of a predicate of the parent has been added to a derived
\* database, which redirects the parent's define node
C34_Witness ==
    /\ IsAdd(cdb.op) /\ cdb.err = ""
    /\ Len(cdb.dbs) > 1
    /\ Len(cdb.dbs[Last].redirect) > 0
    /\ Len(cdb.dbs[Last].nodes) > 0

(***************************************************************************)
(* C35: node indices are monotonic and stable.                             *)
(***************************************************************************)
\* what a stored node may become: a placeholder may be filled in, a define
\* node keeps its predicate and the clauses it lists and may list more, and
\* every other node stays as it is
NodeKept(old, new) ==
    IF old.kind = "empty" THEN TRUE
    ELSE IF old.kind = "define"
    THEN /\ new.kind = "define"
         /\ new.functor = old.functor /\ new.arity = old.arity
         /\ IsPrefix(old.children.list, new.children.list)
    ELSE new = old

\* the indices of a database lie above every index of its parent
C35_AboveParent ==
    \A d \in 1..Len(cdb.dbs) :
        /\ cdb.dbs[d].parent # 0 => cdb.dbs[d].offset = db_len(cdb.dbs, cdb.dbs[d].parent)
        /\ cdb.dbs[d].parent = 0 => cdb.dbs[d].offset = 0
        /\ \A i \in 1..Len(cdb.dbs[d].redirect) :
              /\ cdb.dbs[d].redirect[i][1] < cdb.dbs[d].offset
              /\ cdb.dbs[d].redirect[i][2] >= cdb.dbs[d].offset

\* an add keeps every stored node, locally and as read through get_node,
\* and the index it returns is one it appended
C35_AddStep ==
    IsAdd(cdb'.op) =>
       /\ Len(cdb'.dbs) = Len(cdb.dbs)
       /\ \A d \in 1..Len(cdb.dbs) :
             /\ Len(cdb'.dbs[d].nodes) >= Len(cdb.dbs[d].nodes)
             /\ \A j \in 1..Len(cdb.dbs[d].nodes) :
                   NodeKept(cdb.dbs[d].nodes[j], cdb'.dbs[d].nodes[j])
             /\ \A i \in 0..(db_len(cdb.dbs, d) - 1) :
                   NodeKept(get_node(cdb.dbs, d, i), get_node(cdb'.dbs, d, i))
       /\ (cdb'.err = "" /\ cdb'.ret # NoIdx) =>
             /\ cdb'.ret >= db_len(cdb.dbs, Len(cdb.dbs))
             /\ cdb'.ret < db_len(cdb'.dbs, Len(cdb.dbs))

\* C35: every append returns the current length, above every earlier index
\* and every parent index, and a stored non-empty node is never replaced by
\* another node: only an empty placeholder is ever filled in
C35_MonotonicStable == [](C35_AboveParent) /\ [][C35_AddStep]_vars

\* an add on a derived database returned a fresh index, and a definition
\* that the database took over from its parent lists more than one clause
C35_Witness ==
    /\ IsAdd(cdb.op) /\ cdb.err = "" /\ cdb.ret # NoIdx
    /\ Len(cdb.dbs) > 1
    /\ Len(cdb.dbs[Last].redirect) > 0
    /\ \E j \in 1..Len(cdb.dbs[Last].nodes) :
          /\ cdb.dbs[Last].nodes[j].kind = "define"
          /\ Len(cdb.dbs[Last].nodes[j].children.list) > 1

(***************************************************************************)
(* C36: pruning by the clause index.                                       *)
(***************************************************************************)
\* C36: a find that returns holds no candidate whose head has, at a
\* position where the call pattern is bound, a non-variable argument with
\* another functor or arity
C36_Pruning ==
    (idx.op = "find" /\ idx.err = "") =>
        \A k \in 1..Len(idx.res) : Compatible(idx.term, idx.heads[idx.res[k]])

(***************************************************************************)
(* C37: the order of the candidates a find returns.                        *)
(***************************************************************************)
\* the node of the trie has at least two children below one functor
HasSiblings(nd) == Len(nd.children) + (IF nd.var_child # 0 THEN 1 ELSE 0) >= 2

\* C37: a find that returns holds appended candidates only, in the order in
\* which they were appended (the item of the i-th append is i), each at
\* most once
C37_ResultOrder ==
    (idx.op = "find" /\ idx.err = "") =>
        /\ \A k \in 1..Len(idx.res) : idx.res[k] \in 1..Len(idx.heads)
        /\ \A k \in 1..(Len(idx.res) - 1) : idx.res[k] < idx.res[k + 1]

\* a find on a trie that was split returned a candidate with first argument
\* f(..) before a later one with first argument a, while the children of
\* the trie are sorted the other way round
C37_Witness ==
    /\ idx.op = "find" /\ idx.err = ""
    /\ ~is_leaf(idx.ci.index[1])
    /\ \E n \in 1..Len(idx.ci.index) : HasSiblings(idx.ci.index[n])
    /\ \E i, j \in 1..Len(idx.res) :
          /\ i < j
          /\ idx.heads[idx.res[i]].args[1].f = "f"
          /\ idx.heads[idx.res[j]].args[1].f = "a"

(***************************************************************************)
(* C38: the group ids of annotated disjunctions.                           *)
(***************************************************************************)
\* C38: in every database of a chain, two choice nodes with the same group
\* id and the same choice index are one node: the choice nodes of one
\* disjunction have the choice indices 0..k-1, so no two disjunctions of the
\* chain share a group id
C38_GroupUnique ==
    \A d \in 1..Len(cdb.dbs) :
       \A i, j \in 0..(db_len(cdb.dbs, d) - 1) :
          (/\ get_node(cdb.dbs, d, i).kind = "choice"
           /\ get_node(cdb.dbs, d, j).kind = "choice"
           /\ get_node(cdb.dbs, d, i).group = get_node(cdb.dbs, d, j).group
           /\ get_node(cdb.dbs, d, i).choice = get_node(cdb.dbs, d, j).choice) => i = j

(***************************************************************************)
(* C39: one result per binding and listener.                               *)
(***************************************************************************)
\* every listener of a definition cache entry has received at most one
\* result for each binding
C39_OncePerListener ==
    \A p \in DefineIds :
       \A j \in 1..Len(procs[p].listeners) : OncePerBinding(ListenerLog(p, j))

\* the or-node an entry has recorded for a binding stays the one recorded
C39_NodeKept ==
    \A p \in DefineIds :
       \A i \in 1..Len(procs[p].results) :
          DictGet(procs'[p].results, procs[p].results[i][1], NoRef) = procs[p].results[i][2]

\* C39: a definition cache entry sends each listener at most one result for
\* each binding, and the or-node recorded for a binding is never replaced
C39_OneResultPerBinding ==
    /\ [](C39_OncePerListener)
    /\ [][status' = "running" => C39_NodeKept]_vars

(***************************************************************************)
(* C40: an evaluation on a sink that an aborted evaluation has used.       *)
(***************************************************************************)
\* the result collector of the evaluation that ran last
LastCollector == CHOOSE c \in KindIds("collector") : \A o \in KindIds("collector") : o <= c

\* C40: an evaluation that has returned has reached complete definition
\* cache entries only: the entry its collector listens to is complete and
\* has sent the collector a completion, also when an earlier evaluation on
\* the same sink was aborted
C40_NoPoison ==
    status = "done" =>
       \A p \in DefineIds :
          \A j \in 1..Len(procs[p].listeners) :
             procs[p].listeners[j].h[1] = LastCollector =>
                /\ procs[p].isComplete
                /\ streams[procs[p].listeners[j].h[2]].ncomp >= 1
====
